---------------------------- MODULE Spec2Model ----------------------------
(***************************************************************************)
(* Glider Tycoon (PennBrenn/Fly): the flight physics integrator            *)
(* (src/js/physics.js) stepped against a World (src/unnamed/part_000).     *)
(*                                                                         *)
(* JavaScript numbers are IEEE doubles.  The model keeps them as integers  *)
(* in fixed point, one scale per physical quantity:                        *)
(*   lengths            1/PS  metre        (millimetres)                   *)
(*   speeds             1/VS  metre/second (2 mm/s)                        *)
(*   unit vectors, quaternions, sines and cosines   1/QS                   *)
(*   angles             micro-radians, or tenths of a degree (AoA)         *)
(*   forces             1/10 newton                                        *)
(*   lift coefficient   1/1000, drag coefficient 1/100000                  *)
(* Every quotient is rounded to the nearest integer (RDiv).  The one place *)
(* where the rounding of doubles decides a branch of the code, the         *)
(* count-down of launchTimer and the count-up of thermalHeatTime by        *)
(* dt = 1/60, is modelled exactly: those two are 63-bit integers in units  *)
(* of 2^-58 s kept in three 21-bit limbs and rounded to 53 significant     *)
(* bits, ties to even, after every addition or subtraction.                *)
(***************************************************************************)
EXTENDS Integers, Sequences, FiniteSets, TLC

\* ------------------------------------------------------------ scales
PS == 10 * 100          \* position units per metre
VS == 5 * 100           \* velocity units per metre/second
QS == 100 * 100         \* units of 1.0 for directions, quaternions, sin, cos

\* ------------------------------------------------------------ integer helpers
Abs(a) == IF a < 0 THEN -a ELSE a

Sgn(a) == IF a < 0 THEN -1 ELSE IF a > 0 THEN 1 ELSE 0

Max2(a, b) == IF a >= b THEN a ELSE b

Min2(a, b) == IF a <= b THEN a ELSE b

\* a / b rounded to the nearest integer, halves away from zero (b > 0)
RDiv(a, b) == Sgn(a) * ((Abs(a) + (b \div 2)) \div b)

RECURSIVE IsqrtBits(_, _, _)
IsqrtBits(n, r, b) ==
  IF b = 0 THEN r
  ELSE IF r + b <= 46340 /\ (r + b) * (r + b) <= n
       THEN IsqrtBits(n, r + b, b \div 2)
       ELSE IsqrtBits(n, r, b \div 2)

\* floor(sqrt(n)) for 0 <= n < 2^31
Isqrt(n) == IsqrtBits(n, 0, 32768)

\* sqrt(n) rounded to the nearest integer
RoundRoot(n, r) == IF n - r * r > r THEN r + 1 ELSE r

Rsqrt(n) == RoundRoot(n, Isqrt(n))

\* ------------------------------------------------------------ vectors
Vec(a, b, c) == [x |-> a, y |-> b, z |-> c]

VZero == Vec(0, 0, 0)

VAdd(a, b) == Vec(a.x + b.x, a.y + b.y, a.z + b.z)

VNeg(a) == Vec(-a.x, -a.y, -a.z)

\* a * (n / d), the way multiplyScalar / addScaledVector scale each component
VScale(a, n, d) == Vec(RDiv(a.x * n, d), RDiv(a.y * n, d), RDiv(a.z * n, d))

VLen(a) == Rsqrt(a.x * a.x + a.y * a.y + a.z * a.z)

\* dot product of two vectors, one of them in units of 1/QS
VDot(a, b) == RDiv(a.x * b.x + a.y * b.y + a.z * b.z, QS)

VCross(a, b) ==
  Vec(RDiv(a.y * b.z - a.z * b.y, QS),
      RDiv(a.z * b.x - a.x * b.z, QS),
      RDiv(a.x * b.y - a.y * b.x, QS))

\* Vector3.normalize: the unit vector (scale QS) along a, zero for the zero vector
VOver(a, l) ==
  IF l = 0 THEN VZero
  ELSE Vec(RDiv(a.x * QS, l), RDiv(a.y * QS, l), RDiv(a.z * QS, l))

VUnit(a) == VOver(a, VLen(a))


\* ------------------------------------------------------------ Math.sin, Math.cos
PiQ == 31416 + 0        \* pi in units of 1/QS

\* the alternating series of sine (n = 2) and cosine (n = 1), one term after
\* another: t' = -t * x^2 / (n (n + 1)), n growing by 2
RECURSIVE TrigSeries(_, _, _, _)
TrigSeries(term, x2, n, acc) ==
  IF n > 14 \/ term = 0 THEN acc
  ELSE LET nxt == -RDiv(RDiv(term * x2, QS), n * (n + 1))
       IN  TrigSeries(nxt, x2, n + 2, acc + nxt)

\* x (radians, 1/QS, |x| <= 2 pi) brought into [-pi, pi]
WrapPi(x) == IF x > PiQ THEN x - 2 * PiQ ELSE IF x < -PiQ THEN x + 2 * PiQ ELSE x

\* Math.sin of x (radians, 1/QS), |x| <= 2 pi, in units of 1/QS
SinQ(x) ==
  LET w == WrapPi(x)
      r == IF w > PiQ \div 2 THEN PiQ - w
           ELSE IF w < -(PiQ \div 2) THEN -PiQ - w ELSE w
  IN  Max2(-QS, Min2(QS, TrigSeries(r, RDiv(r * r, QS), 2, r)))

\* Math.cos of x (radians, 1/QS), |x| <= 2 pi, in units of 1/QS
CosQ(x) ==
  LET w == Abs(WrapPi(x))
      r == IF w > PiQ \div 2 THEN PiQ - w ELSE w
      c == Max2(-QS, Min2(QS, TrigSeries(QS, RDiv(r * r, QS), 1, QS)))
  IN  IF w > PiQ \div 2 THEN -c ELSE c

\* sine and cosine of an angle given in micro-radians
SinU(a) == SinQ(RDiv(a, 100))

CosU(a) == CosQ(RDiv(a, 100))

\* sine and cosine of d tenths of a degree, 0 <= d <= 1800, tabulated once
SinDeg == [d \in 0..1800 |-> SinQ(RDiv(d * PiQ, 1800))]

CosDeg == [d \in 0..1800 |-> CosQ(RDiv(d * PiQ, 1800))]

\* The angle in [0, 180] degrees, in tenths of a degree, whose cosine is c and
\* whose sine is s >= 0: the largest d with sin(angle - d) >= 0.  For unit
\* vectors this is Math.acos(dot) with s the length of their cross product;
\* the cross product keeps the resolution that a fixed-point dot loses near 0.
RECURSIVE AngleSearch(_, _, _, _)
AngleSearch(s, c, lo, hi) ==
  IF hi - lo <= 1 THEN lo
  ELSE LET mid == (lo + hi) \div 2
       IN  IF s * CosDeg[mid] - c * SinDeg[mid] >= 0
           THEN AngleSearch(s, c, mid, hi)
           ELSE AngleSearch(s, c, lo, mid)

AngleDeg10(s, c) ==
  IF s = 0 /\ c < 0 THEN 1800 ELSE AngleSearch(s, c, 0, 1801)

\* ------------------------------------------------------------ quaternions
Quat(a, b, c, d) == [x |-> a, y |-> b, z |-> c, w |-> d]

QIdentity == Quat(0, 0, 0, QS)

\* a product of three factors in units of 1/QS
Mul3(a, b, c) == RDiv(RDiv(a * b, QS) * c, QS)

\* Quaternion.setFromEuler(new Euler(ex, ey, ez, order)), angles in micro-radians,
\* from the cosines and sines of the half angles
EulerQuat(c1, c2, c3, s1, s2, s3, order) ==
      IF order = "YXZ"
      THEN Quat(Mul3(s1, c2, c3) + Mul3(c1, s2, s3),
                Mul3(c1, s2, c3) - Mul3(s1, c2, s3),
                Mul3(c1, c2, s3) - Mul3(s1, s2, c3),
                Mul3(c1, c2, c3) + Mul3(s1, s2, s3))
      ELSE Quat(Mul3(s1, c2, c3) + Mul3(c1, s2, s3),
                Mul3(c1, s2, c3) - Mul3(s1, c2, s3),
                Mul3(c1, c2, s3) + Mul3(s1, s2, c3),
                Mul3(c1, c2, c3) - Mul3(s1, s2, s3))

SetFromEuler(ex, ey, ez, order) ==
  EulerQuat(CosU(RDiv(ex, 2)), CosU(RDiv(ey, 2)), CosU(RDiv(ez, 2)),
            SinU(RDiv(ex, 2)), SinU(RDiv(ey, 2)), SinU(RDiv(ez, 2)), order)

\* Quaternion.multiply: a * b
QMul(a, b) ==
  Quat(RDiv(a.x * b.w + a.w * b.x + a.y * b.z - a.z * b.y, QS),
       RDiv(a.y * b.w + a.w * b.y + a.z * b.x - a.x * b.z, QS),
       RDiv(a.z * b.w + a.w * b.z + a.x * b.y - a.y * b.x, QS),
       RDiv(a.w * b.w - a.x * b.x - a.y * b.y - a.z * b.z, QS))

QNormSq(q) == q.x * q.x + q.y * q.y + q.z * q.z + q.w * q.w

\* Quaternion.normalize
QOver(q, l) ==
  IF l = 0 THEN QIdentity
  ELSE Quat(RDiv(q.x * QS, l), RDiv(q.y * QS, l), RDiv(q.z * QS, l), RDiv(q.w * QS, l))

QNormalize(q) == QOver(q, Rsqrt(QNormSq(q)))

\* Vector3.applyQuaternion: v + w t + q x t with t = 2 (q x v), v in units of 1/QS
ApplyQuaternion(v, q) ==
  LET tx == RDiv(2 * (q.y * v.z - q.z * v.y), QS)
      ty == RDiv(2 * (q.z * v.x - q.x * v.z), QS)
      tz == RDiv(2 * (q.x * v.y - q.y * v.x), QS)
  IN  Vec(v.x + RDiv(q.w * tx + q.y * tz - q.z * ty, QS),
          v.y + RDiv(q.w * ty + q.z * tx - q.x * tz, QS),
          v.z + RDiv(q.w * tz + q.x * ty - q.y * tx, QS))

\* ------------------------------------------------------------ doubles that count seconds
(***************************************************************************)
(* launchTimer and thermalHeatTime are doubles changed by dt = 1/60 on     *)
(* every tick and compared with 0 and with 10.  A time is kept exactly as  *)
(* the double holds it: sign and magnitude, the magnitude an integer in    *)
(* units of 2^-58 second (one unit in the last place of the double 1/60)   *)
(* written in three limbs of 21 bits, <<high, middle, low>>.               *)
(***************************************************************************)
LimbBase == 2097152 + 0                  \* 2^21

LimbZero == <<0, 0, 0>>

\* the double nearest to 1/60: 4803839602528529 * 2^-58
DtLimbs == <<1092, 559240, 1118481>>

\* n seconds, n a small natural number: n * 2^58 = (n * 2^16) * 2^42
SecondsLimbs(n) == <<n * 65536, 0, 0>>

LimbLess(a, b) ==
  \/ a[1] < b[1]
  \/ a[1] = b[1] /\ a[2] < b[2]
  \/ a[1] = b[1] /\ a[2] = b[2] /\ a[3] < b[3]

LimbAdd(a, b) ==
  LET l == a[3] + b[3]
      m == a[2] + b[2] + (l \div LimbBase)
  IN  <<a[1] + b[1] + (m \div LimbBase), m % LimbBase, l % LimbBase>>

\* a - b for a >= b
LimbSub(a, b) ==
  LET l == a[3] - b[3]
      bl == IF l < 0 THEN 1 ELSE 0
      m == a[2] - b[2] - bl
      bm == IF m < 0 THEN 1 ELSE 0
  IN  <<a[1] - b[1] - bm, m + bm * LimbBase, l + bl * LimbBase>>

RECURSIVE BitLength(_)
BitLength(n) == IF n = 0 THEN 0 ELSE 1 + BitLength(n \div 2)

RECURSIVE Pow2(_)
Pow2(k) == IF k = 0 THEN 1 ELSE 2 * Pow2(k - 1)

\* The magnitude a rounded to a double: 53 significant bits, ties to even.
\* Below 2^53 units (high limb below 2^11) every integer is a double.
RoundToDouble(a) ==
  IF a[1] < 2048 THEN a
  ELSE LET k    == BitLength(a[1]) - 11
           u    == Pow2(k)
           r    == a[3] % u
           keep == a[3] - r
           up   == r > u \div 2 \/ (r = u \div 2 /\ (keep \div u) % 2 = 1)
       IN  IF up THEN LimbAdd(<<a[1], a[2], keep>>, <<0, 0, u>>)
           ELSE <<a[1], a[2], keep>>

Time(negative, magnitude) == [neg |-> negative, mag |-> magnitude]

TimeZero == Time(FALSE, LimbZero)

TimePositive(t) == ~t.neg /\ t.mag # LimbZero

\* the comparison made with one second more
TimeExceedsLate(t, n) == ~t.neg /\ LimbLess(SecondsLimbs(n + 1), t.mag)

\* t > n seconds, for a time t >= 0
TimeExceeds(t, n) == ~t.neg /\ LimbLess(SecondsLimbs(n), t.mag)

\* the double t - dt, for a time t > 0
TimeMinusDt(t) ==
  IF LimbLess(t.mag, DtLimbs)
  THEN Time(TRUE, RoundToDouble(LimbSub(DtLimbs, t.mag)))
  ELSE Time(FALSE, RoundToDouble(LimbSub(t.mag, DtLimbs)))

\* the double t + dt, for a time t >= 0
TimePlusDt(t) == Time(FALSE, RoundToDouble(LimbAdd(t.mag, DtLimbs)))

\* ------------------------------------------------------------ physics.js: constants, coefficients
RHO == 1225             \* air density, g/m^3

G == 981                \* gravity, cm/s^2

\* the fixed step the game loop passes to update: 1/60 s (main.js PHYSICS_DT)
StepsPerSecond == 60

\* getCL(aoa): lift coefficient (1/1000) of an angle of attack in tenths of a degree
GetCL(deg10) ==
  IF deg10 < -100 THEN -400
  ELSE IF deg10 > 180 THEN 800 - (deg10 - 180) * 10
  ELSE Min2(1600, Max2(-500, 100 + deg10 * 10))

\* getCD(cl, aspectRatio, cd0, e): parasitic + induced drag coefficient (1/100000);
\* cl in 1/1000, cd0 in 1/100000, e in 1/10000
GetCD(cl, aspectRatio, cd0, e) ==
  LET piARe == RDiv(RDiv(PiQ * aspectRatio, 100) * e, QS)     \* 100 pi AR e
  IN  cd0 + RDiv(cl * cl, piARe) * 10

\* FlightPhysics._defaultConfig.  mass kg, wingArea m^2, cd0 and brakeCD 1/100000,
\* e 1/10000, the rates in micro-radians per second, the speeds in 1/VS m/s.
\* The double 60 / 3.6 lies just above 50/3, and 0.9 times it just above 15: the
\* stall speed is rounded up, so that 15 m/s stays below 0.9 times it.
DefaultConfig ==
  [mass |-> 300, cargoMass |-> 0, wingArea |-> 15, aspectRatio |-> 18,
   cd0 |-> 1500, e |-> 8500,
   rollRate |-> 1200000, pitchRate |-> 800000, yawRate |-> 300000,
   maxSpeed |-> RDiv(250 * VS * 10, 36), stallSpeed |-> (60 * VS * 10) \div 36 + 1,
   brakeCD |-> 5000]

\* ------------------------------------------------------------ plane.js: parts
PartsFuselage ==
  [standard  |-> [cargoCapacity |-> 100, mass |-> 80,  dragMod |-> 100, cost |-> 0],
   twoseater |-> [cargoCapacity |-> 200, mass |-> 120, dragMod |-> 105, cost |-> 500],
   freighter |-> [cargoCapacity |-> 500, mass |-> 200, dragMod |-> 130, cost |-> 2000]]

PartsWings ==
  [medium |-> [wingArea |-> 15, aspectRatio |-> 18, rollRate |-> 1200000, liftMod |-> 100, cost |-> 0],
   long   |-> [wingArea |-> 22, aspectRatio |-> 28, rollRate |-> 600000,  liftMod |-> 130, cost |-> 800],
   short  |-> [wingArea |-> 10, aspectRatio |-> 12, rollRate |-> 2000000, liftMod |-> 70,  cost |-> 600]]

PartsWingtips ==
  [none    |-> [cd0Mod |-> 0,    liftMod |-> 100, rollMod |-> 100, speedMod |-> 100, cost |-> 0],
   blended |-> [cd0Mod |-> -300, liftMod |-> 105, rollMod |-> 80,  speedMod |-> 100, cost |-> 400],
   drooped |-> [cd0Mod |-> 500,  liftMod |-> 115, rollMod |-> 90,  speedMod |-> 85,  cost |-> 350]]

\* computePhysicsConfig(planeConfig)
ComputePhysicsConfig(planeConfig) ==
  LET fuse == PartsFuselage[planeConfig.fuselage]
      wing == PartsWings[planeConfig.wings]
      tips == PartsWingtips[planeConfig.wingtips]
      baseMass == 180
      mass == baseMass + fuse.mass
      cd0  == RDiv((1500 + tips.cd0Mod) * fuse.dragMod, 100)
      \* (55 / 3.6)^2 / 300 in (1/VS m/s)^2 per kg
      k    == RDiv((55 * VS) * (55 * VS), 3888)
  IN  [mass |-> mass, cargoMass |-> 0,
       wingArea |-> wing.wingArea, aspectRatio |-> wing.aspectRatio,
       cd0 |-> Max2(800, cd0),
       e |-> Min2(9500, RDiv(8500 * tips.liftMod, 100)),
       rollRate |-> RDiv(wing.rollRate * tips.rollMod, 100),
       pitchRate |-> 800000, yawRate |-> 300000,
       maxSpeed |-> RDiv(250 * VS * tips.speedMod, 360),
       stallSpeed |-> Rsqrt(mass * k),
       brakeCD |-> 5000,
       cargoCapacity |-> fuse.cargoCapacity,
       liftMod |-> RDiv(wing.liftMod * tips.liftMod, 100)]

\* the source taken in place of the target
ObjectAssignReplaced(target, source) == source

\* Object.assign(target, source): every field of source written over target
ObjectAssign(target, source) ==
  [f \in DOMAIN target \cup DOMAIN source |->
     IF f \in DOMAIN source THEN source[f] ELSE target[f]]

\* ------------------------------------------------------------ world.js: the World update consults
(***************************************************************************)
(* A World is built from noise fields.  Over the few hundred metres a      *)
(* modelled flight covers, the model keeps of those fields one biome and a *)
(* terrain that is a plane: height h0 (mm) at z = 0, rising slopeZ mm per  *)
(* metre of z.  Airports and thermals are the records World stores.        *)
(***************************************************************************)
BiomeOcean == "OCEAN"

BiomePlains == "PLAINS"

BiomeMountains == "MOUNTAINS"

BiomeIsland == "ISLAND"

\* a world of several biomes: the noise fields taken as four regions
BiomeOfRegion(x, z) ==
  IF x < -1000 * PS THEN BiomeOcean
  ELSE IF z > 2000 * PS THEN BiomeMountains
  ELSE IF z < -3000 * PS THEN BiomeIsland
  ELSE BiomePlains

\* getBiome(x, z, ...)
GetBiome(w, x, z) == IF w.biome = "REGIONS" THEN BiomeOfRegion(x, z) ELSE w.biome

\* getTerrainHeight(x, z, ...), mm
GetTerrainHeight(w, x, z) ==
  IF GetBiome(w, x, z) = BiomeOcean THEN -2000
  ELSE w.h0 + RDiv(w.slopeZ * z, PS)

\* World.getHeightAt
GetHeightAt(w, x, z) == GetTerrainHeight(w, x, z)

\* World._createAirportData(x, z, rng, id), the heading (micro-radians) drawn by rng
CreateAirportData(terrain, x, z, heading, id) ==
  [id |-> id, x |-> x, z |-> z,
   elevation |-> Max2(GetTerrainHeight(terrain, x, z), 5 * PS),
   heading |-> heading, length |-> 200 * PS, width |-> 30 * PS]

NoAirport == [id |-> -1]

\* whether (x, z) lies on the runway rectangle of ap and y within 10 of its elevation
OnRunway(ap, dx, dz, cos, sin) ==
  /\ Abs(RDiv(dx * cos - dz * sin, QS)) < ap.length \div 2
  /\ Abs(RDiv(dx * sin + dz * cos, QS)) < ap.width \div 2

OnAirport(ap, x, y, z) ==
  \* farther than the runway's half diagonal: outside, whatever the heading
  /\ Abs(x - ap.x) <= 120 * PS
  /\ Abs(z - ap.z) <= 120 * PS
  /\ OnRunway(ap, x - ap.x, z - ap.z, CosU(-ap.heading), SinU(-ap.heading))
  /\ Abs(y - ap.elevation) < 10 * PS

\* World.getAirportAt(x, y, z): the first airport of the list the point is on
GetAirportAt(w, x, y, z) ==
  LET hits == {i \in 1..Len(w.airports) : OnAirport(w.airports[i], x, y, z)}
  IN  IF hits = {} THEN NoAirport
      ELSE w.airports[CHOOSE i \in hits : \A j \in hits : i <= j]

\* Math.exp(-u), u in 1/QS, 0 <= u <= 2, in 1/QS: the series, term after term
RECURSIVE ExpSeries(_, _, _, _)
ExpSeries(term, u, k, acc) ==
  IF k > 16 \/ term = 0 THEN acc
  ELSE LET nxt == -RDiv(RDiv(term * u, QS), k)
       IN  ExpSeries(nxt, u, k + 1, acc + nxt)

ExpNeg(u) == Max2(0, ExpSeries(QS, u, 1, QS))

\* World._getRidgeLift(x, y, z), in mm/s
GetRidgeLift(w, x, y, z) ==
  LET s  == 20 * PS
      h0 == GetTerrainHeight(w, x, z)
      hx == GetTerrainHeight(w, x + s, z)
      hz == GetTerrainHeight(w, x, z + s)
      slopeX == RDiv((hx - h0) * QS, s)
      slopeZ == RDiv((hz - h0) * QS, s)
      normal == VUnit(Vec(-slopeX, QS, -slopeZ))
      heightAboveTerrain == y - h0
      windComponent == VDot(w.windDirection, Vec(normal.x, 0, normal.z))
      proximity == QS - RDiv(heightAboveTerrain * (QS \div PS), 300)
  IN  IF heightAboveTerrain < 0 \/ heightAboveTerrain > 300 * PS THEN 0
      ELSE IF windComponent <= 0 THEN 0
      ELSE RDiv(RDiv(windComponent * w.windSpeed * 400, QS) * proximity, QS)

\* one thermal's share of getThermalLift at (x, y, z): whether it contributes, and
\* its lift (mm/s), temperature (1/1000 degree) and turbulence (1/1000) there
ThermalShare(th, inside, factor, altFactor) ==
  [inside |-> inside,
   lift |-> RDiv(RDiv(th.strength * factor, QS) * Max2(0, altFactor), QS),
   temperature |-> RDiv(th.temperature * factor, QS),
   turbulence |-> RDiv(th.turbulence * factor, QS)]

\* d2 the squared distance to the axis in cm^2, rc the radius in cm;
\* factor = exp(-dist^2 / (2 (radius / 2)^2))
ThermalWithin(th, y, d2, rc) ==
  ThermalShare(th, Rsqrt(d2) < rc /\ y < th.maxAlt,
               ExpNeg(RDiv(d2, RDiv(rc * rc, 2 * QS))),
               QS - RDiv(y * (QS \div PS), RDiv(th.maxAlt, PS)))

ThermalAt(th, x, y, z) ==
  IF Abs(x - th.x) < th.radius /\ Abs(z - th.z) < th.radius
  THEN ThermalWithin(th, y, RDiv(x - th.x, 10) * RDiv(x - th.x, 10)
                              + RDiv(z - th.z, 10) * RDiv(z - th.z, 10),
                     RDiv(th.radius, 10))
  ELSE [inside |-> FALSE, lift |-> 0, temperature |-> 0, turbulence |-> 0]

RECURSIVE SumThermals(_, _, _, _, _, _)
\* temperature and turbulence added up as the lift is
AddThermalSummed(acc, t) ==
  IF t.inside
  THEN [lift |-> acc.lift + t.lift,
        temperature |-> acc.temperature + t.temperature,
        turbulence |-> acc.turbulence + t.turbulence]
  ELSE acc

AddThermal(acc, t) ==
  IF t.inside
  THEN [lift |-> acc.lift + t.lift,
        temperature |-> Max2(acc.temperature, t.temperature),
        turbulence |-> Max2(acc.turbulence, t.turbulence)]
  ELSE acc

SumThermals(ths, i, x, y, z, acc) ==
  IF i > Len(ths) THEN acc
  ELSE SumThermals(ths, i + 1, x, y, z, AddThermal(acc, ThermalAt(ths[i], x, y, z)))

\* World.getThermalLift(x, y, z): lift mm/s, temperature 1/1000 degree, turbulence 1/1000
GetThermalLift(w, x, y, z) ==
  LET biome == GetBiome(w, x, z)
      sum == SumThermals(w.thermals, 1, x, y, z,
                         [lift |-> 0, temperature |-> 15000, turbulence |-> 0])
  IN  IF biome = BiomeOcean
      THEN [lift |-> -1500, temperature |-> 12000, turbulence |-> 100]
      ELSE IF biome = BiomeMountains
      THEN [sum EXCEPT !.lift = @ + GetRidgeLift(w, x, y, z)]
      ELSE sum

\* World.windDirection = (1, 0, 0.3).normalize()
WindDirection == VUnit(Vec(QS, 0, 3 * (QS \div 10)))

\* World.windSpeed, m/s
WindSpeed == 5

\* The worlds of the model.  Airport 0 is forced to (0, 0); any other airport is
\* at least 1500 m away.  Headings are the ones rng drew, in [0, pi).
PlainsTerrain == [biome |-> BiomePlains, h0 |-> 10 * PS, slopeZ |-> 0]

MountainTerrain == [biome |-> BiomeMountains, h0 |-> 150 * PS, slopeZ |-> -400]

IslandTerrain == [biome |-> BiomeIsland, h0 |-> 3 * PS, slopeZ |-> 0]

OceanTerrain == [biome |-> BiomeOcean, h0 |-> 0, slopeZ |-> 0]

RegionsTerrain == [biome |-> "REGIONS", h0 |-> 20 * PS, slopeZ |-> 0]

MakeWorld(terrain, airports, thermals) ==
  [biome |-> terrain.biome, h0 |-> terrain.h0, slopeZ |-> terrain.slopeZ,
   airports |-> airports, thermals |-> thermals,
   windDirection |-> WindDirection, windSpeed |-> WindSpeed]

WorldPlains ==
  MakeWorld(PlainsTerrain,
    <<CreateAirportData(PlainsTerrain, 0, 0, 0, 0),
      CreateAirportData(PlainsTerrain, 2000 * PS, 0, 1570796, 1)>>,
    <<[x |-> 0, z |-> -600 * PS, strength |-> 4000, radius |-> 150 * PS,
       maxAlt |-> 1800 * PS, temperature |-> 33000, turbulence |-> 200,
       biome |-> BiomePlains]>>)

WorldMountains ==
  MakeWorld(MountainTerrain,
    <<CreateAirportData(MountainTerrain, 0, 0, 0, 0)>>,
    <<>>)

WorldIsland ==
  MakeWorld(IslandTerrain,
    <<CreateAirportData(IslandTerrain, 0, 0, 0, 0)>>,
    <<[x |-> 400 * PS, z |-> 0, strength |-> 9000, radius |-> 80 * PS,
       maxAlt |-> 4500 * PS, temperature |-> 48000, turbulence |-> 700,
       biome |-> BiomeIsland]>>)

\* update(dt, world) called with no world (the code's `if (world)` is false)
NoWorld == [biome |-> "none"]

Worlds == {WorldPlains, WorldMountains, WorldIsland}

\* ------------------------------------------------------------ FlightPhysics: state
VARIABLES
  position,          \* mm
  velocity,          \* 1/VS m/s
  orientation,       \* quaternion, 1/QS
  angularVelocity,   \* micro-radians per second
  pitchInput, rollInput, yawInput, brakeInput,
  config,
  isLaunching,
  launchThrust,      \* 1/10 N
  launchTimer,       \* a double counting seconds (Time)
  stalling, crashed, landed,
  thermalHeatTime,   \* a double counting seconds (Time)
  currentTemp,       \* 1/1000 degree
  cargoSpoiled,
  turbulenceOffset,  \* 1/1000
  world,             \* the World the caller hands to update, or NoWorld
  call,              \* the last call made on the object
  result,            \* what the last call returned, when it was update
  locals,            \* the locals of that update, when it ran past its guard
  sinceNormalize,    \* rotations multiplied into orientation since it was last normalized
  flight,            \* the last launch and the updates that followed it back to back
  ticks,             \* updates that ran past the guard
  calls,             \* launch, resetAt, setConfig and control writes still to explore
  game,              \* Game: gameState, physicsAccum, lastTime, the place in _loop
  gen                \* a PerlinNoise or a World under construction, with its SeededRandom;
                     \* in a session, the player's state and the Economy

kinematics == <<position, velocity, orientation, angularVelocity>>

controls == <<pitchInput, rollInput, yawInput, brakeInput>>

flags == <<isLaunching, launchThrust, launchTimer, stalling, crashed, landed>>

cargo == <<thermalHeatTime, currentTemp, cargoSpoiled, turbulenceOffset>>

vars == <<kinematics, controls, config, flags, cargo, world, call, result, locals,
          sinceNormalize, flight, ticks, calls, game, gen>>

\* ------------------------------------------------------------ bounds
MaxTicks == 6

MaxCalls == 2

\* calls other than update explored during an approach
ApproachCalls == 1

\* updates explored after a launch from the constructor's state
LaunchTicks == 244

\* ------------------------------------------------------------ FlightPhysics: accessors
\* get totalMass
TotalMass(cfg) == cfg.mass + cfg.cargoMass

\* get speed; a vector too long for 32-bit squares is measured at half scale
Speed(vel) ==
  IF Abs(vel.x) > 26000 \/ Abs(vel.y) > 26000 \/ Abs(vel.z) > 26000
  THEN 2 * VLen(Vec(vel.x \div 2, vel.y \div 2, vel.z \div 2))
  ELSE VLen(vel)

\* get forward / up / right: the body axes in world space, unit vectors
Forward(q) == VUnit(ApplyQuaternion(Vec(0, 0, -QS), q))

Up(q) == VUnit(ApplyQuaternion(Vec(0, QS, 0), q))

Right(q) == VUnit(ApplyQuaternion(Vec(QS, 0, 0), q))

\* get speedKmh < kmh
SpeedKmhBelow(vel, kmh) == Speed(vel) * 36 < kmh * 10 * VS

\* getAngleOfAttack(), in tenths of a degree: the signed angle between the
\* velocity and the body's forward axis
SignedAngle(dot, cross, right) ==
  (IF VDot(cross, right) > 0 THEN 1 ELSE -1)
    * AngleDeg10(VLen(cross), Min2(QS, Max2(-QS, dot)))

AngleBetween(velDir, fwd, right) ==
  SignedAngle(VDot(velDir, fwd), VCross(velDir, fwd), right)

GetAngleOfAttack(vel, q) ==
  IF Speed(vel) * 10 < VS THEN 0
  ELSE AngleBetween(VUnit(vel), Forward(q), Right(q))

\* a direction (1/QS) times a magnitude (1/10 N), kept within 32 bits: a large
\* magnitude is taken in whole newtons
ScaleForce(dir, mag) ==
  IF Abs(mag) < 200000 THEN VScale(dir, mag, QS)
  ELSE VScale(dir, RDiv(mag, 100), QS \div 100)

\* the return of update when its guard returns: JavaScript's undefined
Undefined == "undefined"

NoLocals == [ran |-> FALSE]

\* ------------------------------------------------------------ FlightPhysics: launch, resetAt, setConfig
\* constructor()
Init0 ==
  /\ position = Vec(0, 300 * PS, 0)
  /\ velocity = Vec(0, 0, -20 * VS)
  /\ orientation = QIdentity
  /\ angularVelocity = VZero
  /\ pitchInput = 0 /\ rollInput = 0 /\ yawInput = 0 /\ brakeInput = 0
  /\ config = DefaultConfig
  /\ isLaunching = FALSE
  /\ launchThrust = 0
  /\ launchTimer = TimeZero
  /\ stalling = FALSE
  /\ crashed = FALSE
  /\ landed = TRUE
  /\ thermalHeatTime = TimeZero
  /\ currentTemp = 15000
  /\ cargoSpoiled = FALSE
  /\ turbulenceOffset = VZero

LaunchTypes == {"cable", "aerotow"}

\* launch(type): the speed along the nose (m/s), the thrust as a percentage of
\* the weight, the seconds of thrust
LaunchSpeed(type) == IF type = "cable" THEN 15 ELSE 25

\* the two factors swapped
LaunchThrustPercentSwapped(type) == IF type = "cable" THEN 120 ELSE 150

LaunchThrustPercent(type) == IF type = "cable" THEN 150 ELSE 120

LaunchSeconds(type) == IF type = "cable" THEN 4 ELSE 15

\* totalMass * G * factor, in 1/10 N
LaunchThrust(cfg, type) == RDiv(TotalMass(cfg) * G * LaunchThrustPercent(type), 1000)

\* forward.multiplyScalar(speed)
LaunchVelocity(q, type) == VScale(Forward(q), LaunchSpeed(type) * VS, QS)

Launch(type) ==
  /\ calls > 0
  /\ calls' = calls - 1
  /\ landed' = FALSE
  /\ crashed' = FALSE
  /\ isLaunching' = TRUE
  /\ cargoSpoiled' = FALSE
  /\ thermalHeatTime' = TimeZero
  /\ launchThrust' = LaunchThrust(config, type)
  /\ launchTimer' = Time(FALSE, SecondsLimbs(LaunchSeconds(type)))
  /\ velocity' = LaunchVelocity(orientation, type)
  /\ call' = [op |-> "launch", type |-> type]
  /\ result' = "none"
  /\ locals' = NoLocals
  /\ flight' = [type |-> type, updates |-> 0]
  /\ UNCHANGED <<position, orientation, angularVelocity, controls, config, stalling,
                 currentTemp, turbulenceOffset, world, sinceNormalize, ticks>>

\* the airports resetAt is handed: those of the world, of any world when update
\* is called without one
AirportsOf(w) ==
  LET of(v) == {v.airports[i] : i \in 1..Len(v.airports)}
  IN  IF w = NoWorld THEN UNION {of(v) : v \in Worlds} ELSE of(w)

ResetAt(airport) ==
  /\ calls > 0
  /\ calls' = calls - 1
  /\ position' = Vec(airport.x, airport.elevation + 2 * PS, airport.z)
  /\ velocity' = VZero
  /\ orientation' = SetFromEuler(0, airport.heading, 0, "XYZ")
  /\ angularVelocity' = VZero
  /\ landed' = TRUE
  /\ crashed' = FALSE
  /\ isLaunching' = FALSE
  /\ stalling' = FALSE
  /\ thermalHeatTime' = TimeZero
  /\ cargoSpoiled' = FALSE
  /\ currentTemp' = 15000
  /\ turbulenceOffset' = VZero
  /\ sinceNormalize' = 0
  /\ call' = [op |-> "resetAt", airport |-> airport.id]
  /\ result' = "none"
  /\ locals' = NoLocals
  /\ flight' = [type |-> "none", updates |-> 0]
  /\ UNCHANGED <<controls, config, launchThrust, launchTimer, world, ticks>>

\* the plane configurations and cargo weights (kg) Game hands to setConfig;
\* 100 kg is twenty Mining Tools, which any hold takes
PlaneConfigs ==
  {[fuselage |-> "standard", wings |-> "medium", wingtips |-> "none"],
   [fuselage |-> "freighter", wings |-> "long", wingtips |-> "drooped"]}

CargoWeights == {0, 100}

\* Game.launch / selectPart / restart: computePhysicsConfig, then cargoMass
PhysConfigs ==
  {[ComputePhysicsConfig(pc) EXCEPT !.cargoMass = cw] :
     pc \in PlaneConfigs, cw \in CargoWeights}

SetConfig(cfg) ==
  /\ calls > 0
  /\ calls' = calls - 1
  /\ ObjectAssign(config, cfg) # config
  /\ config' = ObjectAssign(config, cfg)
  /\ call' = [op |-> "setConfig"]
  /\ result' = "none"
  /\ locals' = NoLocals
  /\ flight' = [type |-> "none", updates |-> 0]
  /\ UNCHANGED <<kinematics, controls, flags, cargo, world, sinceNormalize, ticks>>

\* Game._processInput: the keys held, as the four inputs it writes
ControlSamples ==
  {[pitch |-> 0, roll |-> 0, yaw |-> 0, brake |-> 0],
   [pitch |-> -1, roll |-> 0, yaw |-> 0, brake |-> 0],
   [pitch |-> 1, roll |-> 1, yaw |-> 0, brake |-> 0],
   [pitch |-> 0, roll |-> -1, yaw |-> 1, brake |-> 1]}

SetControls(c) ==
  /\ calls > 0
  /\ calls' = calls - 1
  /\ <<c.pitch, c.roll, c.yaw, c.brake>> # controls
  /\ pitchInput' = c.pitch
  /\ rollInput' = c.roll
  /\ yawInput' = c.yaw
  /\ brakeInput' = c.brake
  /\ call' = [op |-> "controls"]
  /\ result' = "none"
  /\ locals' = NoLocals
  /\ flight' = [type |-> "none", updates |-> 0]
  /\ UNCHANGED <<kinematics, config, flags, cargo, world, sinceNormalize, ticks>>

\* ------------------------------------------------------------ FlightPhysics.update: its parts
\* 0.5 * RHO * v * v, in 1/100 Pa
DynamicPressure(v) == RDiv(RDiv(v * v, 2500) * RHO, 2000)

\* cl * q * wingArea, in 1/10 N (cl in 1/1000)
LiftMagnitude(cl, q, wingArea) == RDiv(RDiv(q * wingArea, 100) * cl, 100)

\* cd * q * wingArea, in 1/10 N (cd in 1/100000)
DragMagnitude(cd, q, wingArea) == RDiv(RDiv(q * wingArea, 1000) * RDiv(cd, 10), 100)

\* the rotation of one tick: angularVelocity (pitch, yaw, -roll) * dt as a 'YXZ' Euler
ControlRotation(pitch, roll, yaw, cfg) ==
  SetFromEuler(RDiv(pitch * cfg.pitchRate, StepsPerSecond),
               RDiv(yaw * cfg.yawRate, StepsPerSecond),
               RDiv(-(roll * cfg.rollRate), StepsPerSecond), "YXZ")

\* this.orientation.multiply(dq); this.orientation.normalize()
RotateByControls(q, dq) == QNormalize(QMul(q, dq))

\* the stall nose rotation: Euler(dt * 0.5, 0, 0), 8333 micro-radians
StallPitch == SetFromEuler(RDiv(500000, StepsPerSecond), 0, 0, "XYZ")

\* the two conditions joined by && instead of ||
StalledBoth(aoa, v, cfg) == Abs(aoa) > 160 /\ v * 10 < cfg.stallSpeed * 9

\* this.stalling = aoaDeg > 16 || v < cfg.stallSpeed * 0.9
Stalled(aoa, v, cfg) == Abs(aoa) > 160 \/ v * 10 < cfg.stallSpeed * 9

\* the stall rotation is applied: this.stalling && v < cfg.stallSpeed
StallDrops(aoa, v, cfg) == Stalled(aoa, v, cfg) /\ v < cfg.stallSpeed

\* thrust is applied: this.isLaunching && this.launchTimer > 0
ThrustApplies(launching, timer) == launching /\ TimePositive(timer)

\* the launch ends: this.launchTimer <= 0 after the decrement
LaunchOver(timer) == ~TimePositive(timer)

\* forward with y raised to at least 0.3, normalized
PullUpward(f) == VUnit(Vec(f.x, Max2(f.y, 3 * (QS \div 10)), f.z))

ThrustDirection(q) == PullUpward(Forward(q))

\* up minus its component along velDir, normalized
Perpendicular(u, velDir, d) == VUnit(VAdd(u, VScale(velDir, -d, QS)))

LiftDirection(q, velDir) == Perpendicular(Up(q), velDir, VDot(Up(q), velDir))

\* velocity.addScaledVector(forces / mass, dt): forces in 1/10 N
Accelerate(vel, forces, mass) ==
  Vec(vel.x + RDiv(forces.x * 5, 6 * mass),
      vel.y + RDiv(forces.y * 5, 6 * mass),
      vel.z + RDiv(forces.z * 5, 6 * mass))

\* the clamp left out
ClampSpeedDropped(vel, maxSpeed) == vel

\* if (speed > maxSpeed) velocity.normalize().multiplyScalar(maxSpeed).  The two
\* steps are taken as one division, vel * maxSpeed / speed, which keeps the
\* result within a unit or two of maxSpeed as the doubles do within an ulp.
ClampSpeed(vel, maxSpeed) ==
  IF Speed(vel) > maxSpeed THEN VScale(vel, maxSpeed, Speed(vel)) ELSE vel

\* position.addScaledVector(velocity, dt), in mm
Advance(pos, vel) ==
  Vec(pos.x + RDiv(vel.x * PS, VS * StepsPerSecond),
      pos.y + RDiv(vel.y * PS, VS * StepsPerSecond),
      pos.z + RDiv(vel.z * PS, VS * StepsPerSecond))

\* this.position.y <= groundH + 1
GroundContact(y, groundH) == y <= groundH + 1 * PS

\* the speed envelope left out
SafeLandingAnySpeed(airport, vel) == airport # NoAirport

\* airport && vSpeed < 2.0 && hSpeed < 40, hSpeed being speedKmh
SafeLanding(airport, vel) ==
  /\ airport # NoAirport
  /\ Abs(vel.y) < 2 * VS
  /\ SpeedKmhBelow(vel, 40)

\* this.velocity.multiplyScalar(0.95)
RollDecelerate(vel) == VScale(vel, 95, 100)

\* the roll has stopped: this.speedKmh < 2
RollStopped(vel) == SpeedKmhBelow(vel, 2)

\* performance.now() in milliseconds, as the turbulence reads it
NowSamples == {0, 140}

\* Math.sin(t * k10 / 10) for t = now * 0.003: the angle is now * 3 * k10 / QS
TurbulenceSine(now, k10) == SinQ((now * 3 * k10) % (2 * PiQ))

\* turbulenceOffset.set(...), in 1/1000; turbulence in 1/1000
TurbulenceAt(now, turbulence) ==
  Vec(RDiv(TurbulenceSine(now, 37) * turbulence * 2, QS),
      RDiv(TurbulenceSine(now, 23) * turbulence * 15, 10 * QS),
      RDiv(TurbulenceSine(now, 41) * turbulence * 2, QS))

\* ------------------------------------------------------------ FlightPhysics.update
\* the guard placed after the position is integrated
UpdateNoOpLate ==
  /\ landed \/ crashed
  /\ position' = Vec(position.x + RDiv(velocity.x * PS, VS * StepsPerSecond),
                     position.y + RDiv(velocity.y * PS, VS * StepsPerSecond),
                     position.z + RDiv(velocity.z * PS, VS * StepsPerSecond))
  /\ call' = [op |-> "update"]
  /\ result' = Undefined
  /\ locals' = NoLocals
  /\ UNCHANGED <<velocity, orientation, angularVelocity, controls, config, flags, cargo,
                 world, sinceNormalize, flight, ticks, calls>>

\* if (this.landed || this.crashed) return;
UpdateNoOp ==
  /\ landed \/ crashed
  /\ call' = [op |-> "update"]
  /\ result' = Undefined
  /\ locals' = NoLocals
  /\ UNCHANGED <<kinematics, controls, config, flags, cargo, world, sinceNormalize,
                 flight, ticks, calls>>

\* lines 276-305: ground collision and the value returned.  v and aoa are the
\* speed and angle of attack the tick computed, v1 the velocity integrated, v2
\* the velocity clamped, p1 the position integrated.
GroundCollision(v, aoa, v1, v2, p1, groundH, airport, contact, safe, stopped) ==
  /\ velocity' = IF (contact /\ ~safe) \/ stopped THEN VZero
                 ELSE IF safe THEN RollDecelerate(v2) ELSE v2
  /\ position' = IF safe THEN [p1 EXCEPT !.y = airport.elevation + 1 * PS]
                 ELSE IF contact THEN [p1 EXCEPT !.y = groundH + 2 * PS]
                 ELSE p1
  /\ landed' = stopped
  /\ crashed' = (contact /\ ~safe)
  /\ result' = IF stopped THEN "landed" ELSE IF safe THEN "landing"
               ELSE IF contact THEN "crashed" ELSE "flying"
  /\ locals' = [ran |-> TRUE, v |-> v, aoa |-> aoa,
                thrust |-> ThrustApplies(isLaunching, launchTimer),
                integrated |-> v1, clamped |-> v2,
                contact |-> contact, groundH |-> groundH, airport |-> airport.id]

Touchdown(v, aoa, v1, v2, p1, groundH, airport, contact, safe) ==
  GroundCollision(v, aoa, v1, v2, p1, groundH, airport, contact, safe,
                  safe /\ RollStopped(RollDecelerate(v2)))

OverGround(v, aoa, v1, v2, p1, groundH, airport) ==
  Touchdown(v, aoa, v1, v2, p1, groundH, airport,
            world # NoWorld /\ GroundContact(p1.y, groundH),
            world # NoWorld /\ GroundContact(p1.y, groundH) /\ SafeLanding(airport, v2))

\* lines 265-279: integrate, then look the ground up under the new position
Moved(v, aoa, v1, v2, p1) ==
  OverGround(v, aoa, v1, v2, p1,
             IF world # NoWorld THEN GetHeightAt(world, p1.x, p1.z) ELSE 0,
             IF world # NoWorld THEN GetAirportAt(world, p1.x, p1.y, p1.z) ELSE NoAirport)

Clamped(v, aoa, v1, v2) == Moved(v, aoa, v1, v2, Advance(position, v2))

Integrate(v, aoa, v1) == Clamped(v, aoa, v1, ClampSpeed(v1, config.maxSpeed))

\* lines 254-263: stall detection and the stall rotation; o1 the orientation
\* after the control rotation, forces the sum of the tick's forces
StallDetection(v, o1, aoa, forces) ==
  /\ stalling' = Stalled(aoa, v, config)
  /\ orientation' = IF StallDrops(aoa, v, config) THEN QMul(o1, StallPitch) ELSE o1
  /\ sinceNormalize' = IF StallDrops(aoa, v, config) THEN 1 ELSE 0
  /\ Integrate(v, aoa, Accelerate(velocity, forces, TotalMass(config)))

\* lines 225-251: the forces and the cargo's heat the thermal brings
EnvironmentForce(thermal, turbulence, mass) ==
  VAdd(Vec(0, RDiv(thermal.lift * mass, 200), 0),
       VAdd(IF thermal.turbulence > 0 THEN VScale(turbulence, mass, 200) ELSE VZero,
            ScaleForce(world.windDirection, RDiv(world.windSpeed * mass, 5))))

InThermal(now, v, o1, aoa, forces, thermal, heat, turbulence) ==
  /\ thermal.turbulence > 0 \/ now = 0
  /\ currentTemp' = thermal.temperature
  /\ thermalHeatTime' = heat
  /\ cargoSpoiled' = IF thermal.temperature > 30000 /\ TimeExceeds(heat, 10)
                     THEN TRUE ELSE cargoSpoiled
  /\ turbulenceOffset' = turbulence
  /\ StallDetection(v, o1, aoa,
                    VAdd(forces, EnvironmentForce(thermal, turbulence, TotalMass(config))))

Environment(now, v, o1, aoa, forces, thermal) ==
  InThermal(now, v, o1, aoa, forces, thermal,
            IF thermal.temperature > 30000 THEN TimePlusDt(thermalHeatTime)
            ELSE thermalHeatTime,
            IF thermal.turbulence > 0 THEN TurbulenceAt(now, thermal.turbulence)
            ELSE turbulenceOffset)

\* lines 221-252: if (world) ...
Environmental(now, v, o1, aoa, forces) ==
  IF world # NoWorld
  THEN Environment(now, v, o1, aoa, forces,
                   GetThermalLift(world, position.x, position.y, position.z))
  ELSE /\ now = 0
       /\ UNCHANGED cargo
       /\ StallDetection(v, o1, aoa, forces)

\* lines 208-219: launch thrust; timer the launchTimer after this tick
Thrust(now, v, o1, aoa, forces, thrusting, timer) ==
  /\ launchTimer' = timer
  /\ isLaunching' = IF thrusting /\ LaunchOver(timer) THEN FALSE ELSE isLaunching
  /\ launchThrust' = IF thrusting /\ LaunchOver(timer) THEN 0 ELSE launchThrust
  /\ Environmental(now, v, o1, aoa,
       IF thrusting THEN VAdd(forces, ScaleForce(ThrustDirection(o1), launchThrust))
       ELSE forces)

LaunchThrustStep(now, v, o1, aoa, forces) ==
  Thrust(now, v, o1, aoa, forces, ThrustApplies(isLaunching, launchTimer),
         IF ThrustApplies(isLaunching, launchTimer) THEN TimeMinusDt(launchTimer)
         ELSE launchTimer)

\* lines 184-206: gravity, lift along liftDir, drag against velDir
AeroForces(v, o1, cfg, cl, cd, q, velDir) ==
  VAdd(Vec(0, -RDiv(TotalMass(cfg) * G, 10), 0),
       VAdd(ScaleForce(LiftDirection(o1, velDir), LiftMagnitude(cl, q, cfg.wingArea)),
            IF v > VS \div 2
            THEN ScaleForce(velDir, -DragMagnitude(cd, q, cfg.wingArea))
            ELSE VZero))

Coefficients(v, o1, cfg, cl) ==
  AeroForces(v, o1, cfg, cl,
             GetCD(cl, cfg.aspectRatio, cfg.cd0, cfg.e) + brakeInput * cfg.brakeCD,
             DynamicPressure(v),
             IF v > VS \div 2 THEN VUnit(velocity) ELSE VNeg(Forward(o1)))

Aerodynamics(now, v, o1, aoa) ==
  LaunchThrustStep(now, v, o1, aoa, Coefficients(v, o1, config, GetCL(aoa)))

\* lines 166-179 and 188: the control rotation, normalized, and the angle of attack
Rotated(now, v, o1) ==
  /\ angularVelocity' = Vec(pitchInput * config.pitchRate, yawInput * config.yawRate,
                            -(rollInput * config.rollRate))
  /\ Aerodynamics(now, v, o1, GetAngleOfAttack(velocity, o1))

\* the rest of update, for one reading now of performance.now()
UpdateStep(limit, now) ==
  /\ ~(landed \/ crashed)
  /\ ticks < limit
  /\ Rotated(now, Speed(velocity),
             RotateByControls(orientation,
                              ControlRotation(pitchInput, rollInput, yawInput, config)))
  /\ flight' = IF flight.type # "none" /\ controls = <<0, 0, 0, 0>>
               THEN [flight EXCEPT !.updates = @ + 1]
               ELSE [type |-> "none", updates |-> 0]
  /\ call' = [op |-> "update"]
  /\ ticks' = ticks + 1
  /\ UNCHANGED <<controls, config, world, calls>>

Update(limit) ==
  \/ UpdateNoOp
  \/ \E now \in NowSamples : UpdateStep(limit, now)

\* ------------------------------------------------------------ the object in use
NoFlight == [type |-> "none", updates |-> 0]

\* a FlightPhysics used without a Game around it
NoGame == [state |-> "none"]

\* no PerlinNoise and no World is being constructed
NoGen == [pc |-> "none"]

\* a new FlightPhysics, and the world its updates are handed
Init ==
  /\ Init0
  /\ world \in Worlds \cup {NoWorld}
  /\ call = [op |-> "new"]
  /\ result = "none"
  /\ locals = NoLocals
  /\ sinceNormalize = 0
  /\ flight = NoFlight
  /\ ticks = 0
  /\ calls = MaxCalls
  /\ game = NoGame
  /\ gen = NoGen

Next ==
  \/ \E type \in LaunchTypes : Launch(type) /\ UNCHANGED <<game, gen>>
  \/ \E airport \in AirportsOf(world) : ResetAt(airport) /\ UNCHANGED <<game, gen>>
  \/ \E cfg \in PhysConfigs : SetConfig(cfg) /\ UNCHANGED <<game, gen>>
  \/ \E c \in ControlSamples : SetControls(c) /\ UNCHANGED <<game, gen>>
  \/ Update(MaxTicks) /\ UNCHANGED <<game, gen>>

Spec == Init /\ [][Next]_vars

\* ------------------------------------------------------------ a launch followed through
\* A new FlightPhysics launched once and updated until well after the cable's
\* four seconds.
InitLaunch ==
  /\ Init0
  /\ world \in Worlds \cup {NoWorld}
  /\ call = [op |-> "new"]
  /\ result = "none"
  /\ locals = NoLocals
  /\ sinceNormalize = 0
  /\ flight = NoFlight
  /\ ticks = 0
  /\ calls = 1
  /\ game = NoGame
  /\ gen = NoGen

NextLaunch ==
  \/ \E type \in LaunchTypes : Launch(type) /\ UNCHANGED <<game, gen>>
  \/ Update(LaunchTicks) /\ UNCHANGED <<game, gen>>

SpecLaunch == InitLaunch /\ [][NextLaunch]_vars

\* ------------------------------------------------------------ approaches
(***************************************************************************)
(* Flights under way near the ground, as earlier calls left them: the      *)
(* launch is over (the cable's timer ran out on its 241st tick), no input  *)
(* is held.  Each case gives the offsets dx, dz (mm) from airport 0,       *)
(* the height (mm) above the terrain, the velocity and the nose's pitch    *)
(* (micro-radians, nose up positive).                                      *)
(***************************************************************************)
ApproachCases ==
  {[name |-> "roll",   dx |-> 0, dz |-> 0, height |-> 1010,
    v |-> Vec(0, -500, -4167), pitch |-> 0],
   [name |-> "late",   dx |-> 0, dz |-> 0, height |-> 1010,
    v |-> Vec(0, -850, -4167), pitch |-> 0],
   [name |-> "slow",   dx |-> 0, dz |-> 0, height |-> 1010,
    v |-> Vec(0, 0, -200), pitch |-> 0],
   [name |-> "fast",   dx |-> 0, dz |-> 0, height |-> 1010,
    v |-> Vec(0, -500, -8333), pitch |-> 0],
   [name |-> "steep",  dx |-> 0, dz |-> 0, height |-> 1010,
    v |-> Vec(0, -1500, -4000), pitch |-> 0],
   [name |-> "edge",   dx |-> 0, dz |-> 0, height |-> 1010,
    v |-> Vec(0, -800, -5550), pitch |-> 0],
   [name |-> "field",  dx |-> -400 * PS, dz |-> 0, height |-> 1010,
    v |-> Vec(0, -500, -4167), pitch |-> 0],
   [name |-> "dive",   dx |-> -400 * PS, dz |-> 0, height |-> 3000,
    v |-> Vec(0, -20000, -30000), pitch |-> 0],
   [name |-> "flare",  dx |-> 0, dz |-> 0, height |-> 20 * PS,
    v |-> Vec(0, 0, -10000), pitch |-> 349066],
   [name |-> "cruise", dx |-> 400 * PS, dz |-> -79200, height |-> 50 * PS,
    v |-> Vec(0, 0, -12500), pitch |-> 0]}

\* the launchTimer a cable launch leaves behind: 4 - 241 dt as the doubles add up
SpentTimer == Time(TRUE, <<1092, 559240, 1115827>>)

InitApproach ==
  /\ world \in Worlds
  /\ \E c \in ApproachCases :
       /\ position = Vec(c.dx, GetHeightAt(world, c.dx, c.dz) + c.height, c.dz)
       /\ velocity = c.v
       /\ orientation = SetFromEuler(c.pitch, 0, 0, "XYZ")
  /\ angularVelocity = VZero
  /\ pitchInput = 0 /\ rollInput = 0 /\ yawInput = 0 /\ brakeInput = 0
  /\ config = DefaultConfig
  /\ isLaunching = FALSE
  /\ launchThrust = 0
  /\ launchTimer = SpentTimer
  /\ stalling = FALSE
  /\ crashed = FALSE
  /\ landed = FALSE
  /\ thermalHeatTime = TimeZero
  /\ currentTemp = 15000
  /\ cargoSpoiled = FALSE
  /\ turbulenceOffset = VZero
  /\ call = [op |-> "update"]
  /\ result = "flying"
  /\ locals = NoLocals
  /\ sinceNormalize = 0
  /\ flight = NoFlight
  /\ ticks = 0
  /\ calls = ApproachCalls
  /\ game = NoGame
  /\ gen = NoGen

SpecApproach == InitApproach /\ [][Next]_vars

\* ------------------------------------------------------------ flights through hot air
(***************************************************************************)
(* Flights under way around the island's thermal, whose core is hotter     *)
(* than 30 degrees: in the core, crossing the core's edge outward, on the  *)
(* thermal's cool rim and clear of it.  dx, dz are offsets from the        *)
(* thermal's axis.  The cargo has been in hot air for no tick yet, or for  *)
(* 597 ticks.                                                              *)
(***************************************************************************)
HeatCases ==
  {[name |-> "core",    dx |-> 0, dz |-> 0,      v |-> Vec(0, 0, -12500)],
   [name |-> "leaving", dx |-> 0, dz |-> -37500, v |-> Vec(0, 0, -12500)],
   [name |-> "rim",     dx |-> 0, dz |-> -79200, v |-> Vec(0, 0, -12500)],
   [name |-> "clear",   dx |-> -800 * PS, dz |-> 0, v |-> Vec(0, 0, -12500)]}

\* thermalHeatTime after 597 additions of dt to 0, as the doubles add up
\* (9.950000000000074 s); the 600th addition gives 10.000000000000076
HeatNearly == Time(FALSE, <<652083, 419430, 860160>>)

InitHeat ==
  /\ world = WorldIsland
  /\ \E c \in HeatCases :
       /\ position = Vec(world.thermals[1].x + c.dx,
                         GetHeightAt(world, 0, 0) + 50 * PS,
                         world.thermals[1].z + c.dz)
       /\ velocity = c.v
  /\ orientation = QIdentity
  /\ angularVelocity = VZero
  /\ pitchInput = 0 /\ rollInput = 0 /\ yawInput = 0 /\ brakeInput = 0
  /\ config = DefaultConfig
  /\ isLaunching = FALSE
  /\ launchThrust = 0
  /\ launchTimer = SpentTimer
  /\ stalling = FALSE
  /\ crashed = FALSE
  /\ landed = FALSE
  /\ thermalHeatTime \in {TimeZero, HeatNearly}
  /\ currentTemp = GetThermalLift(world, position.x, position.y, position.z).temperature
  /\ cargoSpoiled = FALSE
  /\ turbulenceOffset = VZero
  /\ call = [op |-> "update"]
  /\ result = "flying"
  /\ locals = NoLocals
  /\ sinceNormalize = 0
  /\ flight = NoFlight
  /\ ticks = 0
  /\ calls = ApproachCalls
  /\ game = NoGame
  /\ gen = NoGen

\* launch, resetAt and update are the calls that touch the cargo's heat
NextHeat ==
  \/ \E type \in LaunchTypes : Launch(type) /\ UNCHANGED <<game, gen>>
  \/ \E airport \in AirportsOf(world) : ResetAt(airport) /\ UNCHANGED <<game, gen>>
  \/ Update(MaxTicks) /\ UNCHANGED <<game, gen>>

SpecHeat == InitHeat /\ [][NextHeat]_vars

\* ------------------------------------------------------------ Game: the frame loop
(***************************************************************************)
(* Game._loop runs once per animation frame.  physicsAccum and the frame's *)
(* dt are kept in thirds of a microsecond, in which PHYSICS_DT = 1/60 s is *)
(* a whole number; lastTime and the frame's timestamp in microseconds.     *)
(* game.pc is the place in _loop: "idle" between frames, "stepping" at the *)
(* head of the while loop, "handling" between physics.update and           *)
(* _handlePhysicsResult.  game.steps counts the updates of the frame under *)
(* way (of the last frame, between frames), game.frames the frames run.    *)
(***************************************************************************)
PHYSICS_DT == 3000000 \div StepsPerSecond

\* frames still to explore
MaxFrames == 3

\* microseconds from one frame's timestamp to the next: a fast display, a 60 Hz
\* display, a slow frame, and a stall longer than the cap of 100 ms
FrameTimes == {4000, 16667, 40000, 250000}

\* Math.min((timestamp - this.lastTime) / 1000, 0.1)
FrameDelta(timestamp, lastTime) == Min2((timestamp - lastTime) * 3, 300000)

\* the while condition without its gameState test
LoopRunsAlways(g) == g.accum >= PHYSICS_DT

\* this.physicsAccum >= this.PHYSICS_DT && this.gameState === 'flying'
LoopRuns(g) == g.accum >= PHYSICS_DT /\ g.state = "flying"

\* _loop up to the while loop.  _processInput writes the inputs of the keys held,
\* which are the inputs the aircraft has (no key event came in between).
Loop(timestamp) ==
  /\ game.pc = "idle"
  /\ game.frames < MaxFrames
  /\ game' = IF game.state = "flying"
             THEN [game EXCEPT !.lastTime = timestamp,
                               !.accum = @ + FrameDelta(timestamp, game.lastTime),
                               !.pc = "stepping", !.steps = 0]
             ELSE [game EXCEPT !.lastTime = timestamp, !.steps = 0,
                               !.frames = @ + 1]
  /\ UNCHANGED <<kinematics, controls, config, flags, cargo, world, call, result,
                 locals, sinceNormalize, flight, ticks, calls>>

\* const result = this.physics.update(this.PHYSICS_DT, this.world)
LoopStep ==
  /\ game.pc = "stepping"
  /\ LoopRuns(game)
  /\ Update(MaxTicks)
  /\ game' = [game EXCEPT !.pc = "handling", !.steps = @ + 1]

\* the airport looked up at sea level, whatever the aircraft's height
LandedAirportAtSeaLevel == GetAirportAt(world, position.x, 0, position.z)

\* _onLanded: this.world.getAirportAt(position.x, position.y, position.z)
LandedAirport == GetAirportAt(world, position.x, position.y, position.z)

\* _handlePhysicsResult(result) with _onLanded and _onCrashed, then
\* this.physicsAccum -= this.PHYSICS_DT.  _onCrashed sets the timeout of the
\* respawn: game.timers counts the timeouts set and not yet run.
HandlePhysicsResult ==
  /\ game.pc = "handling"
  /\ game' = [game EXCEPT
       !.state = IF result = "crashed" THEN "crashed"
                 ELSE IF result = "landed" /\ LandedAirport # NoAirport
                 THEN "landed" ELSE "flying",
       !.currentAirport = IF result = "landed" /\ LandedAirport # NoAirport
                          THEN LandedAirport.id ELSE @,
       !.timers = IF result = "crashed" THEN @ + 1 ELSE @,
       !.accum = @ - PHYSICS_DT,
       !.pc = "stepping"]
  /\ landed' = IF result = "landed" /\ LandedAirport = NoAirport
               THEN FALSE ELSE landed
  /\ UNCHANGED <<kinematics, controls, config, isLaunching, launchThrust, launchTimer,
                 stalling, crashed, cargo, world, call, result, locals, sinceNormalize,
                 flight, ticks, calls>>

\* the while loop is left; the rest of the frame touches neither the aircraft
\* nor the accumulator
LoopEnd ==
  /\ game.pc = "stepping"
  /\ ~LoopRuns(game)
  /\ game' = [game EXCEPT !.pc = "idle", !.frames = @ + 1]
  /\ UNCHANGED <<kinematics, controls, config, flags, cargo, world, call, result,
                 locals, sinceNormalize, flight, ticks, calls>>

\* Game.launch(type), the player having the money an aerotow costs:
\* setConfig(physConfig), physics.launch(type), gameState = 'flying'
GameLaunch(type, cfg) ==
  /\ game.pc = "idle"
  /\ game.state = "landed"
  /\ calls > 0
  /\ calls' = calls - 1
  /\ config' = ObjectAssign(config, cfg)
  /\ landed' = FALSE
  /\ crashed' = FALSE
  /\ isLaunching' = TRUE
  /\ cargoSpoiled' = FALSE
  /\ thermalHeatTime' = TimeZero
  /\ launchThrust' = LaunchThrust(ObjectAssign(config, cfg), type)
  /\ launchTimer' = Time(FALSE, SecondsLimbs(LaunchSeconds(type)))
  /\ velocity' = LaunchVelocity(orientation, type)
  /\ call' = [op |-> "launch", type |-> type]
  /\ result' = "none"
  /\ locals' = NoLocals
  /\ flight' = [type |-> type, updates |-> 0]
  /\ game' = [game EXCEPT !.state = "flying"]
  /\ UNCHANGED <<position, orientation, angularVelocity, controls, stalling,
                 currentTemp, turbulenceOffset, world, sinceNormalize, ticks>>

\* this.world.airports[this.state.currentAirport] || this.world.airports[0]
RespawnAirport(w, g) ==
  IF g.currentAirport + 1 \in 1..Len(w.airports)
  THEN w.airports[g.currentAirport + 1] ELSE w.airports[1]

\* the timeout _onCrashed set runs, two seconds after the crash, between two
\* frames: resetAt(airport), gameState = 'landed'
Respawn(airport) ==
  /\ game.pc = "idle"
  /\ game.timers > 0
  /\ ResetAt(airport)
  /\ game' = [game EXCEPT !.state = "landed", !.timers = @ - 1]

\* Game.restart(), called between two frames: a new World of a new seed,
\* setConfig of the plane of the new state, resetAt(airports[0]),
\* gameState = 'landed'.  The timeouts set stay set.
Restart(w, planeConfig) ==
  /\ game.pc = "idle"
  /\ calls > 0
  /\ calls' = calls - 1
  /\ world' = w
  /\ config' = ObjectAssign(config, ComputePhysicsConfig(planeConfig))
  /\ position' = Vec(w.airports[1].x, w.airports[1].elevation + 2 * PS, w.airports[1].z)
  /\ velocity' = VZero
  /\ orientation' = SetFromEuler(0, w.airports[1].heading, 0, "XYZ")
  /\ angularVelocity' = VZero
  /\ landed' = TRUE
  /\ crashed' = FALSE
  /\ isLaunching' = FALSE
  /\ stalling' = FALSE
  /\ thermalHeatTime' = TimeZero
  /\ cargoSpoiled' = FALSE
  /\ currentTemp' = 15000
  /\ turbulenceOffset' = VZero
  /\ sinceNormalize' = 0
  /\ call' = [op |-> "resetAt", airport |-> w.airports[1].id]
  /\ result' = "none"
  /\ locals' = NoLocals
  /\ flight' = [type |-> "none", updates |-> 0]
  /\ game' = [game EXCEPT !.state = "landed", !.currentAirport = 0]
  /\ UNCHANGED <<controls, launchThrust, launchTimer, ticks>>

\* Flights under way in a running game (the approaches, with the configuration
\* Game.launch gave the aircraft) and the accumulator the last frame left.
InitGame ==
  /\ world \in Worlds
  /\ \E c \in ApproachCases :
       /\ position = Vec(c.dx, GetHeightAt(world, c.dx, c.dz) + c.height, c.dz)
       /\ velocity = c.v
       /\ orientation = SetFromEuler(c.pitch, 0, 0, "XYZ")
  /\ angularVelocity = VZero
  /\ pitchInput = 0 /\ rollInput = 0 /\ yawInput = 0 /\ brakeInput = 0
  /\ \E cfg \in PhysConfigs : cfg.cargoMass = 0 /\ config = ObjectAssign(DefaultConfig, cfg)
  /\ isLaunching = FALSE
  /\ launchThrust = 0
  /\ launchTimer = SpentTimer
  /\ stalling = FALSE
  /\ crashed = FALSE
  /\ landed = FALSE
  /\ thermalHeatTime = TimeZero
  /\ currentTemp = 15000
  /\ cargoSpoiled = FALSE
  /\ turbulenceOffset = VZero
  /\ call = [op |-> "update"]
  /\ result = "flying"
  /\ locals = NoLocals
  /\ sinceNormalize = 0
  /\ flight = NoFlight
  /\ ticks = 0
  /\ calls = ApproachCalls
  /\ game \in {[state |-> "flying", accum |-> a, lastTime |-> 1000000, pc |-> "idle",
                 steps |-> 0, frames |-> 0, timers |-> 0,
                 currentAirport |-> world.airports[Len(world.airports)].id] :
                a \in {20000}}
  /\ gen = NoGen

NextGame ==
  \/ \E t \in FrameTimes : Loop(game.lastTime + t) /\ UNCHANGED gen
  \/ LoopStep /\ UNCHANGED gen
  \/ HandlePhysicsResult /\ UNCHANGED gen
  \/ LoopEnd /\ UNCHANGED gen
  \/ \E type \in LaunchTypes, cfg \in PhysConfigs :
       GameLaunch(type, cfg) /\ UNCHANGED gen
  \/ Respawn(RespawnAirport(world, game)) /\ UNCHANGED gen

SpecGame == InitGame /\ [][NextGame]_vars

\* ------------------------------------------------------------ Game: after a crash
(***************************************************************************)
(* The game as _onCrashed leaves it at the end of the frame of a crash     *)
(* short of airport 0 of the plains: gameState 'crashed', the aircraft 2 m *)
(* above the ground with no speed, the timeout of the respawn set.         *)
(***************************************************************************)
InitCrash ==
  /\ world = WorldPlains
  /\ position = Vec(0, GetHeightAt(world, 0, 400 * PS) + 2 * PS, 400 * PS)
  /\ velocity = VZero
  /\ orientation = QIdentity
  /\ angularVelocity = VZero
  /\ pitchInput = 0 /\ rollInput = 0 /\ yawInput = 0 /\ brakeInput = 0
  /\ config = ObjectAssign(DefaultConfig, ComputePhysicsConfig(
                 [fuselage |-> "standard", wings |-> "medium", wingtips |-> "none"]))
  /\ isLaunching = FALSE
  /\ launchThrust = 0
  /\ launchTimer = SpentTimer
  /\ stalling = FALSE
  /\ crashed = TRUE
  /\ landed = FALSE
  /\ thermalHeatTime = TimeZero
  /\ currentTemp = 15000
  /\ cargoSpoiled = FALSE
  /\ turbulenceOffset = VZero
  /\ call = [op |-> "update"]
  /\ result = "crashed"
  /\ locals = NoLocals
  /\ sinceNormalize = 0
  /\ flight = NoFlight
  /\ ticks = 0
  /\ calls = MaxCalls + 1
  /\ game = [state |-> "crashed", accum |-> 0, lastTime |-> 1000000, pc |-> "idle",
             steps |-> 1, frames |-> 0, timers |-> 1, currentAirport |-> 0]
  /\ gen = NoGen

NextCrash ==
  \/ \E t \in FrameTimes : Loop(game.lastTime + t) /\ UNCHANGED gen
  \/ LoopStep /\ UNCHANGED gen
  \/ HandlePhysicsResult /\ UNCHANGED gen
  \/ LoopEnd /\ UNCHANGED gen
  \/ \E type \in LaunchTypes, cfg \in PhysConfigs :
       GameLaunch(type, cfg) /\ UNCHANGED gen
  \/ Respawn(RespawnAirport(world, game)) /\ UNCHANGED gen
  \/ \E w \in Worlds :
       Restart(w, [fuselage |-> "standard", wings |-> "medium", wingtips |-> "none"])
         /\ UNCHANGED gen

SpecCrash == InitCrash /\ [][NextCrash]_vars

\* ------------------------------------------------------------ noise.js: SeededRandom
(***************************************************************************)
(* The state of a SeededRandom is its seed.  next() returns the double     *)
(* (seed - 1) / 2147483646; the model keeps the value as its numerator     *)
(* seed - 1 and scales by it in whole numbers.                             *)
(***************************************************************************)
Modulus == 2147483647

Multiplier == 16807

\* this.seed = (this.seed * 16807 + 0) % 2147483647, for 0 <= seed < Modulus.
\* The product needs 46 bits, which the code's doubles hold exactly; here it is
\* split as Modulus = q * Multiplier + r so that no term passes 31 bits.
SeedAfterNext(seed) ==
  LET q == Modulus \div Multiplier
      r == Modulus % Multiplier
      t == Multiplier * (seed % q) - r * (seed \div q)
  IN  IF t < 0 THEN t + Modulus ELSE t

\* twice the pair h = [q, r], a pair standing for q * (Modulus - 1) + r
Doubled(h) ==
  IF h.r >= (Modulus - 1) - h.r
  THEN [q |-> 2 * h.q + 1, r |-> h.r - ((Modulus - 1) - h.r)]
  ELSE [q |-> 2 * h.q, r |-> 2 * h.r]

\* the pair d with a added to it when odd
Added(d, a, odd) ==
  IF ~odd THEN d
  ELSE IF d.r >= (Modulus - 1) - a
  THEN [q |-> d.q + 1, r |-> d.r - ((Modulus - 1) - a)]
  ELSE [q |-> d.q, r |-> d.r + a]

\* acc doubled, and a added for the bit b of n, from bit b down to bit 1; acc
\* is a pair with r < Modulus - 1
RECURSIVE ProductBits(_, _, _, _)
ProductBits(a, n, b, acc) ==
  IF b = 0 \/ acc.r >= Modulus - 1 THEN acc
  ELSE ProductBits(a, n, b \div 2, Added(Doubled(acc), a, (n \div b) % 2 = 1))

\* a * n as a pair, for 0 <= a < Modulus - 1 and 0 <= n < 2^31
Product(a, n) == ProductBits(a, n, 1073741824, [q |-> 0, r |-> 0])

\* Math.floor(next() * n) for the seed next() left and a whole n > 0:
\* the floor of (seed - 1) * n / (Modulus - 1), which is -1 when seed is 0
Scaled(seed, n) == IF seed = 0 THEN -1 ELSE Product(seed - 1, n).q

\* nextInt(min, max) = Math.floor(min + next() * (max - min)), seed after next()
NextInt(seed, min, max) == min + Scaled(seed, max - min)

\* ------------------------------------------------------------ noise.js: PerlinNoise._init
(***************************************************************************)
(* gen.p is the Uint8Array p and gen.perm the table perm, entry k of the   *)
(* code at place k + 1.  gen.pc is the place in _init: "shuffle" in the    *)
(* Fisher-Yates loop with gen.i its index, "perm" before perm is filled,   *)
(* "grad" in the gradient loop, "done".  gen.last is the last draw made.   *)
(***************************************************************************)
\* the physics and the game stand still while a noise field or a world is built
aircraft == <<kinematics, controls, config, flags, cargo, world, call, result, locals,
              sinceNormalize, flight, ticks, calls>>

Parked ==
  /\ Init0
  /\ world = NoWorld
  /\ call = [op |-> "new"]
  /\ result = "none"
  /\ locals = NoLocals
  /\ sinceNormalize = 0
  /\ flight = NoFlight
  /\ ticks = 0
  /\ calls = 0
  /\ game = NoGame

\* seeds PerlinNoise is constructed with: its default, and worldSeed, worldSeed + 100,
\* + 200, + 300 for worldSeed in 0..999998
NoiseSeeds == {0, 42, 100, 1000298}

\* [p[i], p[j]] = [p[j], p[i]] on a Uint8Array of 256: an index outside it reads
\* undefined, which is stored as 0, and is not written
SwapEntries(p, i, j) ==
  IF j \in 0..255
  THEN [p EXCEPT ![i + 1] = p[j + 1], ![j + 1] = p[i + 1]]
  ELSE [p EXCEPT ![i + 1] = 0]

\* new PerlinNoise(seed) up to the shuffle loop
NewPerlinNoise(seed) ==
  [pc |-> "shuffle", seed |-> seed, rng |-> seed, p |-> [k \in 1..256 |-> k - 1],
   i |-> 255, perm |-> <<>>, grad |-> <<>>, last |-> [op |-> "none"]]

\* one pass of for (let i = 255; i > 0; i--), rng the seed after next()
Shuffled(rng, j) ==
  [gen EXCEPT !.rng = rng, !.p = SwapEntries(gen.p, gen.i, j), !.i = @ - 1,
              !.pc = IF gen.i = 1 THEN "perm" ELSE "shuffle",
              !.last = [op |-> "nextInt", min |-> 0, max |-> gen.i + 1, value |-> j]]

ShuffleStep ==
  /\ gen.pc = "shuffle"
  /\ gen' = Shuffled(SeedAfterNext(gen.rng), NextInt(SeedAfterNext(gen.rng), 0, gen.i + 1))
  /\ UNCHANGED <<aircraft, game>>

\* for (let i = 0; i < 512; i++) this.perm[i] = p[i & 255]
FillPerm ==
  /\ gen.pc = "perm"
  /\ gen' = [gen EXCEPT !.perm = [k \in 1..512 |-> gen.p[((k - 1) % 256) + 1]],
                        !.pc = "grad", !.i = 0]
  /\ UNCHANGED <<aircraft, game>>

\* one pass of the gradient loop: a = rng.next() * Math.PI * 2 (micro-radians)
Gradient(rng, a) ==
  [gen EXCEPT !.rng = rng, !.grad = Append(@, <<CosU(a), SinU(a)>>), !.i = @ + 1,
              !.pc = IF gen.i = 255 THEN "done" ELSE "grad",
              !.last = [op |-> "next"]]

GradientStep ==
  /\ gen.pc = "grad"
  /\ gen' = Gradient(SeedAfterNext(gen.rng), Scaled(SeedAfterNext(gen.rng), 2 * 3141593))
  /\ UNCHANGED <<aircraft, game>>

InitNoise ==
  /\ Parked
  /\ \E seed \in NoiseSeeds : gen = NewPerlinNoise(seed)

NextNoise ==
  \/ ShuffleStep
  \/ FillPerm
  \/ GradientStep

SpecNoise == InitNoise /\ [][NextNoise]_vars

\* ------------------------------------------------------------ World: airports and thermals
(***************************************************************************)
(* The World constructor runs _generateAirports and _generateThermals.     *)
(* gen.pc is the place in it: "airports" at the head of the while loop,    *)
(* "thermals" at the head of the for loop (gen.i its index), "built".      *)
(* gen.terrain stands for the noise fields of gen.seed, gen.drawn lists    *)
(* the biome of every thermal draw, and gen.first is the World built       *)
(* before from the same seed, when there is one.  Distances are measured   *)
(* in half metres.                                                         *)
(***************************************************************************)
AirportCount == 12

MaxAttempts == 500

ThermalCount == 80

\* minDist, in half metres
MinDist == 2 * 1500

\* worlds still to build from one seed
MaxBuilds == 2

\* Math.sqrt(dx ** 2 + dz ** 2) for dx, dz in mm, in half metres
PlanarDistance(dx, dz) ==
  Rsqrt(RDiv(dx, 500) * RDiv(dx, 500) + RDiv(dz, 500) * RDiv(dz, 500))

\* the seeds of n draws made one after the other from seed
RECURSIVE SeedsAfter(_, _)
SeedsAfter(seed, n) ==
  IF n = 0 THEN <<>> ELSE <<SeedAfterNext(seed)>> \o SeedsAfter(SeedAfterNext(seed), n - 1)

\* Math.cos(angle) * dist and Math.sin(angle) * dist in mm: angle in
\* micro-radians, dist in decimetres
PolarX(angle, dist) == RDiv(dist * CosU(angle), QS) * 100

PolarZ(angle, dist) == RDiv(dist * SinU(angle), QS) * 100

\* this._createAirportData(x, z, rng, id) with rng the seed after its next()
AirportData(terrain, x, z, rng, id) ==
  CreateAirportData(terrain, x, z, Scaled(rng, 3141593), id)

\* the lists of a World are shared with the World built before
FreshListsShared(previous) == previous

\* this.airports = []; this.thermals = [] of a new World
FreshLists(previous) == [airports |-> <<>>, thermals |-> <<>>]

\* new World(scene, seed) up to the while loop of _generateAirports
NewWorld(seed, terrain, first, builds) ==
  [pc |-> "airports", seed |-> seed, terrain |-> terrain,
   rng |-> SeedAfterNext(seed + 500),
   airports |-> Append(FreshLists(first).airports,
                       AirportData(terrain, 0, 0, SeedAfterNext(seed + 500),
                                   Len(FreshLists(first).airports))),
   thermals |-> FreshLists(first).thermals,
   attempts |-> 0, i |-> 0, drawn |-> <<>>, first |-> first, builds |-> builds,
   last |-> [op |-> "next"]]

\* the while condition without its attempts test
PlacingUnbounded(g) == Len(g.airports) < AirportCount

\* this.airports.length < count && attempts < 500
Placing(g) == Len(g.airports) < AirportCount /\ g.attempts < MaxAttempts

\* the distance test left out
TooCloseNever(airports, ax, az) == FALSE

\* d < minDist for one of the airports placed
TooClose(airports, ax, az) ==
  \E k \in 1..Len(airports) :
    PlanarDistance(ax - airports[k].x, az - airports[k].z) < MinDist

\* one pass of the while loop: d the seeds of the draws it can make, (ax, az)
\* the candidate
Attempted(d, ax, az) ==
  IF GetBiome(gen.terrain, ax, az) = BiomeOcean \/ TooClose(gen.airports, ax, az)
  THEN [gen EXCEPT !.attempts = @ + 1, !.rng = d[2]]
  ELSE [gen EXCEPT !.attempts = @ + 1, !.rng = d[3],
                   !.airports = Append(@, AirportData(gen.terrain, ax, az, d[3],
                                                      Len(gen.airports)))]

Candidate(d, angle, dist) == Attempted(d, PolarX(angle, dist), PolarZ(angle, dist))

AirportAttempt ==
  /\ gen.pc = "airports"
  /\ Placing(gen)
  /\ gen' = Candidate(SeedsAfter(gen.rng, 3),
                      Scaled(SeedsAfter(gen.rng, 1)[1], 2 * 3141593),
                      15000 + Scaled(SeedsAfter(gen.rng, 2)[2], 60000))
  /\ UNCHANGED <<aircraft, game>>

\* the while loop is left; _generateThermals makes its SeededRandom
AirportsPlaced ==
  /\ gen.pc = "airports"
  /\ ~Placing(gen)
  /\ gen' = [gen EXCEPT !.pc = "thermals", !.rng = gen.seed + 700, !.i = 0]
  /\ UNCHANGED <<aircraft, game>>

\* strength (mm/s), radius (mm), maxAlt (mm), temperature (1/1000 degree) of a
\* thermal in biome: the least value and the width of the interval drawn from
ThermalRanges ==
  [PLAINS    |-> [strength |-> <<2000, 3000>>, radius |-> <<80000, 120000>>,
                  maxAlt |-> <<1500000, 500000>>, temperature |-> <<25000, 10000>>],
   MOUNTAINS |-> [strength |-> <<3000, 4000>>, radius |-> <<60000, 100000>>,
                  maxAlt |-> <<3000000, 1000000>>, temperature |-> <<20000, 8000>>],
   ISLAND    |-> [strength |-> <<6000, 6000>>, radius |-> <<40000, 60000>>,
                  maxAlt |-> <<4000000, 1000000>>, temperature |-> <<40000, 15000>>]]

\* least + rng.next() * width
Drawn(range, rng) == range[1] + Scaled(rng, range[2])

\* the island's interval given to every biome
ThermalTurbulenceCalm(biome, rng) == Scaled(rng, 300)

\* biome === BIOME.ISLAND ? 0.5 + rng.next() * 0.5 : rng.next() * 0.3, in 1/1000
ThermalTurbulence(biome, rng) ==
  IF biome = BiomeIsland THEN 500 + Scaled(rng, 500) ELSE Scaled(rng, 300)

\* the thermal pushed: d the seeds of the seven draws of the pass
Thermal(d, tx, tz, biome, ranges) ==
  [x |-> tx, z |-> tz,
   strength |-> Drawn(ranges.strength, d[3]),
   radius |-> Drawn(ranges.radius, d[4]),
   maxAlt |-> Drawn(ranges.maxAlt, d[5]),
   temperature |-> Drawn(ranges.temperature, d[6]),
   turbulence |-> ThermalTurbulence(biome, d[7]),
   biome |-> biome]

\* one pass of the for loop
ThermalPass(d, tx, tz, biome) ==
  IF biome = BiomeOcean
  THEN [gen EXCEPT !.i = @ + 1, !.rng = d[2], !.drawn = Append(@, biome)]
  ELSE [gen EXCEPT !.i = @ + 1, !.rng = d[7], !.drawn = Append(@, biome),
                   !.thermals = Append(@, Thermal(d, tx, tz, biome, ThermalRanges[biome]))]

ThermalAtPolar(d, tx, tz) == ThermalPass(d, tx, tz, GetBiome(gen.terrain, tx, tz))

ThermalDraw ==
  /\ gen.pc = "thermals"
  /\ gen.i < ThermalCount
  /\ gen' = ThermalAtPolar(SeedsAfter(gen.rng, 7),
               PolarX(Scaled(SeedsAfter(gen.rng, 1)[1], 2 * 3141593),
                      Scaled(SeedsAfter(gen.rng, 2)[2], 80000)),
               PolarZ(Scaled(SeedsAfter(gen.rng, 1)[1], 2 * 3141593),
                      Scaled(SeedsAfter(gen.rng, 2)[2], 80000)))
  /\ UNCHANGED <<aircraft, game>>

\* the for loop is left: the constructor returns
ThermalsPlaced ==
  /\ gen.pc = "thermals"
  /\ gen.i >= ThermalCount
  /\ gen' = [gen EXCEPT !.pc = "built", !.builds = @ + 1]
  /\ UNCHANGED <<aircraft, game>>

\* new World(scene, seed) once more, from the seed of the World just built
BuildAgain ==
  /\ gen.pc = "built"
  /\ gen.builds < MaxBuilds
  /\ gen' = NewWorld(gen.seed, gen.terrain,
                     [airports |-> gen.airports, thermals |-> gen.thermals], gen.builds)
  /\ UNCHANGED <<aircraft, game>>

\* worldSeed: Math.floor(Math.random() * 999999), and the spec's 12345
WorldSeeds == {0, 12345, 999998}

WorldTerrains == {PlainsTerrain, IslandTerrain, OceanTerrain, RegionsTerrain}

InitWorld ==
  /\ Parked
  /\ \E seed \in WorldSeeds, terrain \in WorldTerrains :
       gen = NewWorld(seed, terrain, [airports |-> <<>>, thermals |-> <<>>], 0)

NextWorld ==
  \/ AirportAttempt
  \/ AirportsPlaced
  \/ ThermalDraw
  \/ ThermalsPlaced
  \/ BuildAgain

SpecWorld == InitWorld /\ [][NextWorld]_vars

\* ------------------------------------------------------------ World: queries and chunks
(***************************************************************************)
(* A World after construction, queried and updated by the game.  gen.pc is *)
(* "query"; gen.chunks are the keys (chunkX, chunkZ) of World.chunks and   *)
(* gen.last is the last call made with what it returned.  The World's      *)
(* airports, thermals and noise fields are in the variable world.          *)
(***************************************************************************)
CHUNK_SIZE == 256

VIEW_DIST == 8

\* the FlightPhysics, which no call on the World touches
physics == <<kinematics, controls, config, flags, cargo, call, result, locals,
             sinceNormalize, flight, ticks, calls>>

\* three thermals on the plains: two that overlap, and one whose rim reaches
\* over the Ocean (x < -1000 m)
WorldRegions ==
  MakeWorld(RegionsTerrain,
    <<CreateAirportData(RegionsTerrain, 0, 0, 0, 0),
      CreateAirportData(RegionsTerrain, 3000 * PS, 200 * PS, 1570796, 1)>>,
    <<[x |-> 0, z |-> 0, strength |-> 4000, radius |-> 150 * PS,
       maxAlt |-> 1800 * PS, temperature |-> 33000, turbulence |-> 200,
       biome |-> BiomePlains],
      [x |-> 100 * PS, z |-> 0, strength |-> 3000, radius |-> 120 * PS,
       maxAlt |-> 1500 * PS, temperature |-> 28000, turbulence |-> 250,
       biome |-> BiomePlains],
      [x |-> -950 * PS, z |-> 0, strength |-> 2000, radius |-> 100 * PS,
       maxAlt |-> 2000 * PS, temperature |-> 30000, turbulence |-> 100,
       biome |-> BiomePlains]>>)

\* a thermal over a slope that faces the wind
WorldRidge ==
  MakeWorld(MountainTerrain,
    <<CreateAirportData(MountainTerrain, 0, 0, 0, 0)>>,
    <<[x |-> 0, z |-> -200 * PS, strength |-> 5000, radius |-> 80 * PS,
       maxAlt |-> 3500 * PS, temperature |-> 24000, turbulence |-> 100,
       biome |-> BiomeMountains]>>)

QueryWorlds == {WorldRegions, WorldRidge, WorldIsland}

\* places getThermalLift is queried at: around every thermal's axis, at its rim
\* and beyond, below and at its ceiling, and far from all thermals
QueryOffsets(th) == {0, 50 * PS, th.radius - PS, th.radius, -60 * PS}

QueryHeights(th) == {100 * PS, 1600 * PS, th.maxAlt - 100 * PS, th.maxAlt}

QueryPoints(w) ==
  UNION {{Vec(w.thermals[k].x + dx, y, w.thermals[k].z) :
            dx \in QueryOffsets(w.thermals[k]), y \in QueryHeights(w.thermals[k])} :
         k \in 1..Len(w.thermals)}
  \cup {Vec(5000 * PS, 100 * PS, -4000 * PS)}

\* places of the other queries: on and off a runway, over the Ocean, far away
QueryPlaces ==
  {Vec(0, 6 * PS, 50 * PS), Vec(40 * PS, 500 * PS, 0), Vec(-1010 * PS, 100 * PS, 0),
   Vec(5000 * PS, 100 * PS, -4000 * PS)}

\* what a call returned
Answer(op, at, value) == [gen EXCEPT !.last = [op |-> op, at |-> at, value |-> value]]

\* World.getThermalLift(x, y, z)
QueryThermalLift(p) ==
  /\ gen.pc = "query"
  /\ gen' = Answer("getThermalLift", p, GetThermalLift(world, p.x, p.y, p.z))
  /\ UNCHANGED <<physics, world, game>>

\* World.getHeightAt(x, z)
QueryHeightAt(p) ==
  /\ gen.pc = "query"
  /\ gen' = Answer("getHeightAt", p, GetHeightAt(world, p.x, p.z))
  /\ UNCHANGED <<physics, world, game>>

\* World.getBiomeAt(x, z)
QueryBiomeAt(p) ==
  /\ gen.pc = "query"
  /\ gen' = Answer("getBiomeAt", p, GetBiome(world, p.x, p.z))
  /\ UNCHANGED <<physics, world, game>>

\* World.getAirportAt(x, y, z)
QueryAirportAt(p) ==
  /\ gen.pc = "query"
  /\ gen' = Answer("getAirportAt", p, GetAirportAt(world, p.x, p.y, p.z))
  /\ UNCHANGED <<physics, world, game>>

\* the entry of getMinimapData for the place (x, z)
MinimapEntry(w, x, z) ==
  [x |-> x, z |-> z, biome |-> GetBiome(w, x, z),
   lift |-> GetThermalLift(w, x, 500 * PS, z).lift]

\* World.getMinimapData(cx, cz, radius): n places a side, 20 m apart, x outermost
MinimapData(w, cx, cz, radius, n) ==
  [i \in 1..(n * n) |->
     MinimapEntry(w, cx - radius + ((i - 1) \div n) * 20 * PS,
                     cz - radius + ((i - 1) % n) * 20 * PS)]

QueryMinimapData(c, radius) ==
  /\ gen.pc = "query"
  /\ gen' = Answer("getMinimapData", c,
                   MinimapData(world, c.x, c.z, radius, (2 * radius + 20 * PS - 1) \div (20 * PS)))
  /\ UNCHANGED <<physics, world, game>>

\* _createRunwayMarkings(airport) written so that it raises the airport itself
WithMarkingsRaised(ap) == [ap EXCEPT !.elevation = @ + 15 * PS]

\* _createRunwayMarkings(airport): airport.worldPos = (x, elevation + 15, z)
WithMarkings(ap) ==
  [f \in DOMAIN ap \cup {"worldPos"} |->
     IF f = "worldPos" THEN Vec(ap.x, ap.elevation + 15 * PS, ap.z) ELSE ap[f]]

\* the chunks World.update creates around the chunk (cx, cz)
ChunksAdded(chunks, cx, cz) ==
  {<<cx + dx, cz + dz>> : dx \in -VIEW_DIST..VIEW_DIST, dz \in -VIEW_DIST..VIEW_DIST} \ chunks

\* the chunks World.update deletes
ChunksRemoved(chunks, cx, cz) ==
  {k \in chunks : Abs(k[1] - cx) > VIEW_DIST + 2 \/ Abs(k[2] - cz) > VIEW_DIST + 2}

\* _createChunk: the airport gets runway markings from the chunk k
InChunk(ap, k) ==
  /\ Abs(ap.x - k[1] * CHUNK_SIZE * PS) < CHUNK_SIZE * PS
  /\ Abs(ap.z - k[2] * CHUNK_SIZE * PS) < CHUNK_SIZE * PS

\* the airports after the chunks added were created
AirportsMarked(airports, added) ==
  [k \in 1..Len(airports) |->
     IF \E c \in added : InChunk(airports[k], c)
     THEN WithMarkings(airports[k]) ELSE airports[k]]

Updated(chunks, cx, cz, added) ==
  /\ gen' = [gen EXCEPT !.chunks = (chunks \cup added) \ ChunksRemoved(chunks \cup added, cx, cz),
                        !.last = [op |-> "update", at |-> <<cx, cz>>, value |-> "none"]]
  /\ world' = [world EXCEPT !.airports = AirportsMarked(world.airports, added)]

\* World.update(playerX, playerZ)
WorldUpdate(playerX, playerZ) ==
  /\ gen.pc = "query"
  /\ Updated(gen.chunks, playerX \div (CHUNK_SIZE * PS), playerZ \div (CHUNK_SIZE * PS),
             ChunksAdded(gen.chunks, playerX \div (CHUNK_SIZE * PS),
                         playerZ \div (CHUNK_SIZE * PS)))
  /\ UNCHANGED <<physics, game>>

\* where the player is when World.update is called
PlayerPlaces == {<<0, 0>>, <<2900 * PS, -100 * PS>>, <<6000 * PS, 300 * PS>>}

MinimapRadii == {20 * PS, 30 * PS}

InitQuery ==
  /\ Init0
  /\ world \in QueryWorlds
  /\ call = [op |-> "new"]
  /\ result = "none"
  /\ locals = NoLocals
  /\ sinceNormalize = 0
  /\ flight = NoFlight
  /\ ticks = 0
  /\ calls = 0
  /\ game = NoGame
  /\ gen = [pc |-> "query", chunks |-> {}, last |-> [op |-> "none"]]

NextQuery ==
  \/ \E p \in QueryPoints(world) : QueryThermalLift(p)
  \/ \E p \in QueryPlaces : QueryHeightAt(p)
  \/ \E p \in QueryPlaces : QueryBiomeAt(p)
  \/ \E p \in QueryPlaces : QueryAirportAt(p)
  \/ \E p \in QueryPlaces, radius \in MinimapRadii : QueryMinimapData(p, radius)
  \/ \E p \in PlayerPlaces : WorldUpdate(p[1], p[2])

SpecQuery == InitQuery /\ [][NextQuery]_vars

\* ------------------------------------------------------------ setConfig in flight
(***************************************************************************)
(* setConfig called in the course of a flight, with whole configurations   *)
(* as Game hands them over and with objects of a few fields, one of which  *)
(* FlightPhysics does not know.                                            *)
(***************************************************************************)
ConfigSamples ==
  {[ComputePhysicsConfig([fuselage |-> "freighter", wings |-> "long", wingtips |-> "drooped"])
      EXCEPT !.cargoMass = 100],
   [cargoMass |-> 100], [stallSpeed |-> 0, maxSpeed |-> 10 * VS],
   [mass |-> 260, colour |-> "red"]}

InitConfig ==
  /\ world = WorldIsland
  /\ \E c \in {h \in HeatCases : h.name = "clear"} :
       /\ position = Vec(world.thermals[1].x + c.dx,
                         GetHeightAt(world, 0, 0) + 50 * PS,
                         world.thermals[1].z + c.dz)
       /\ velocity = c.v
  /\ orientation = QIdentity
  /\ angularVelocity = VZero
  /\ pitchInput = 0 /\ rollInput = 0 /\ yawInput = 0 /\ brakeInput = 0
  /\ config = DefaultConfig
  /\ isLaunching = FALSE
  /\ launchThrust = 0
  /\ launchTimer = SpentTimer
  /\ stalling = FALSE
  /\ crashed = FALSE
  /\ landed = FALSE
  /\ thermalHeatTime = HeatNearly
  /\ currentTemp = GetThermalLift(world, position.x, position.y, position.z).temperature
  /\ cargoSpoiled = FALSE
  /\ turbulenceOffset = VZero
  /\ call = [op |-> "update"]
  /\ result = "flying"
  /\ locals = NoLocals
  /\ sinceNormalize = 0
  /\ flight = NoFlight
  /\ ticks = 0
  /\ calls = MaxCalls
  /\ game = NoGame
  /\ gen = NoGen

NextConfig ==
  \/ \E type \in LaunchTypes : Launch(type) /\ UNCHANGED <<game, gen>>
  \/ \E cfg \in ConfigSamples : SetConfig(cfg) /\ UNCHANGED <<game, gen>>
  \/ Update(MaxTicks) /\ UNCHANGED <<game, gen>>

SpecConfig == InitConfig /\ [][NextConfig]_vars

\* ------------------------------------------------------------ economy.js, save.js
(***************************************************************************)
(* The player's state (Game.state) and the Economy of a session.  Money in *)
(* dollars, volumes in litres, weights in kg, Date.now() in ms, a          *)
(* mission's timeRemaining in thirds of a microsecond like the frame's dt. *)
(* Of COMMODITIES the four an airport's market offers here, all of whole   *)
(* weight and volume.  A mission is the object generateMissions pushes;    *)
(* its id `m_${Date.now()}_${i}` is the pair <<Date.now(), i>>.            *)
(***************************************************************************)
Commodities ==
  [food     |-> [basePrice |-> 40,  weight |-> 3, volume |-> 3, heatSensitive |-> FALSE],
   textiles |-> [basePrice |-> 60,  weight |-> 1, volume |-> 5, heatSensitive |-> FALSE],
   tools    |-> [basePrice |-> 120, weight |-> 5, volume |-> 4, heatSensitive |-> FALSE],
   medicine |-> [basePrice |-> 200, weight |-> 1, volume |-> 2, heatSensitive |-> TRUE]]

\* BIOME_DEMAND[ap.biome]?.[comm.id] || 1.0, in tenths
BiomeDemand(biome, id) ==
  IF biome = BiomePlains /\ id = "food" THEN 7
  ELSE IF biome = BiomePlains /\ id = "tools" THEN 8
  ELSE IF biome = BiomeMountains /\ id = "tools" THEN 5
  ELSE IF biome = BiomeIsland /\ id = "tools" THEN 20
  ELSE IF biome = BiomeIsland /\ id = "medicine" THEN 15
  ELSE 10

\* _initMarkets: buyPrice and sellPrice of a commodity at an airport of w, the
\* two random factors at the middle of their ranges (1.0 of 0.8..1.2 and 0.75
\* of 0.6..0.9); distMod = 1 + (distFromOrigin / 8000) * 0.5
BuyPrice(w, ap, id) ==
  RDiv(Commodities[id].basePrice * BiomeDemand(w.biome, id)
         * (32000 + PlanarDistance(ap.x, ap.z)), 320000)

SellPrice(w, ap, id) == RDiv(BuyPrice(w, ap, id) * 3, 4)

\* rng.nextInt(2, 15), the same draw for every item here
FreshStock == 3

\* ap.market[...].stock of every airport after _initMarkets
FreshMarkets(w) ==
  [k \in 1..Len(w.airports) |-> [id \in DOMAIN Commodities |-> FreshStock]]

\* this.airports.find(a => a.id === airportId): its place in the list, 0 if none
FindAirport(w, airportId) ==
  IF \E k \in 1..Len(w.airports) : w.airports[k].id = airportId
  THEN CHOOSE k \in 1..Len(w.airports) :
         /\ w.airports[k].id = airportId
         /\ \A j \in 1..(k - 1) : w.airports[j].id # airportId
  ELSE 0

\* activeMission = null
NoMission == [id |-> <<-1, -1>>]

\* the kinds of mission with the cargo each carries here; quantity is
\* 1 + rng.nextInt(0, 5)
MissionKinds ==
  <<[type |-> "standard",   cargoId |-> "food",     quantity |-> 2],
    [type |-> "urgent",     cargoId |-> "textiles", quantity |-> 2],
    [type |-> "cold-chain", cargoId |-> "medicine", quantity |-> 2]>>

\* the mission generateMissions pushes on pass i of its loop: from ap to dest,
\* at the time now
NewMission(ap, dest, kind, now, i) ==
  LET distance   == PlanarDistance(ap.x - dest.x, ap.z - dest.z)   \* half metres
      \* Math.round(distance * 0.1 + cargo.basePrice * quantity * 0.5)
      baseReward == RDiv(distance + Commodities[kind.cargoId].basePrice * kind.quantity * 10, 20)
      reward     == IF kind.type = "urgent" THEN RDiv(baseReward * 18, 10)
                    ELSE IF kind.type = "cold-chain" THEN baseReward * 2
                    ELSE baseReward
      penalty    == IF kind.type = "urgent" THEN RDiv(reward * 15, 10)
                    ELSE IF kind.type = "cold-chain" THEN reward * 2
                    ELSE RDiv(reward, 2)
      \* Math.round(60 + distance / 20) seconds, or null (0)
      timeLimit  == IF kind.type = "urgent" THEN (60 + RDiv(distance, 40)) * 3000000
                    ELSE 0
  IN  [id |-> <<now, i>>, type |-> kind.type, toAirport |-> dest.id,
       reward |-> reward, penalty |-> penalty,
       timeLimit |-> timeLimit, timeRemaining |-> timeLimit,
       expiresAt |-> now + 120000, accepted |-> FALSE,
       heatSensitive |-> (kind.type = "cold-chain"
                            \/ Commodities[kind.cargoId].heatSensitive)]

\* this.missions.filter(m => m.expiresAt > Date.now()): whether m is kept
StillOpen(m, now) == m.expiresAt > now

\* Economy.generateMissions(airportId) at the time now: three missions (of
\* 3 + rng.nextInt(0, 3)), one of each kind, to the first other airport
GenerateMissions(w, s, airportId, now) ==
  LET k     == FindAirport(w, airportId)
      dests == SelectSeq(w.airports, LAMBDA a : a.id # airportId)
      kept  == SelectSeq(s.missions, LAMBDA m : StillOpen(m, now))
  IN  IF k = 0 THEN s
      ELSE IF dests = <<>> THEN [s EXCEPT !.missions = kept]
      ELSE [s EXCEPT !.missions = kept \o
              [i \in 1..Len(MissionKinds) |->
                 NewMission(w.airports[k], dests[1], MissionKinds[i], now, i - 1)]]

\* this.missions.find(m => m.id === missionId), NoMission if there is none
FindMission(s, missionId) ==
  IF \E i \in 1..Len(s.missions) : s.missions[i].id = missionId
  THEN s.missions[CHOOSE i \in 1..Len(s.missions) :
         /\ s.missions[i].id = missionId
         /\ \A j \in 1..(i - 1) : s.missions[j].id # missionId]
  ELSE NoMission

\* the object m written to: the list holds the same object as activeMission
WriteMission(s, m) ==
  [s EXCEPT !.active = IF s.active.id = m.id THEN m ELSE @,
            !.missions = [i \in 1..Len(s.missions) |->
                            IF s.missions[i].id = m.id THEN m ELSE s.missions[i]]]

\* Economy.acceptMission(missionId): whether it returns true
Accepts(s, missionId) ==
  /\ FindMission(s, missionId) # NoMission
  /\ ~FindMission(s, missionId).accepted
  /\ s.active = NoMission

\* the mission left active after it was resolved
ClearMissionLate(s) ==
  [s EXCEPT !.missions = SelectSeq(s.missions, LAMBDA m : m.id # s.active.id)]

\* this.activeMission = null; this.missions = this.missions.filter(m => m.id !== mission.id)
ClearMission(s) ==
  [s EXCEPT !.active = NoMission,
            !.missions = SelectSeq(s.missions, LAMBDA m : m.id # s.active.id)]

\* the money after a penalty taken without the floor
FinedBelowZero(money, penalty) == money - penalty

\* the money after a penalty: Math.max(0, money - penalty)
Fined(money, penalty) == Max2(0, money - penalty)

\* the resolution of a mission, written down as it is paid: kind is "reward"
\* or "penalty"
Resolved(s, m, kind) == [s EXCEPT !.log = Append(@, [id |-> m.id, kind |-> kind])]

\* the sums of state.cargo
RECURSIVE CargoVolume(_)
CargoVolume(c) ==
  IF c = <<>> THEN 0 ELSE Commodities[Head(c)].volume + CargoVolume(Tail(c))

RECURSIVE CargoWeight(_)
CargoWeight(c) ==
  IF c = <<>> THEN 0 ELSE Commodities[Head(c)].weight + CargoWeight(Tail(c))

\* this.state.planeConfig: the object DEFAULT_STATE.planeConfig itself in a
\* game that began without a save ({ ...DEFAULT_STATE } copies the reference)
\* and after restart(), the object loadGame parsed otherwise
PlaneConfigOf(s) == IF s.shared THEN s.defaults ELSE s.own

StandardPlane == [fuselage |-> "standard", wings |-> "medium", wingtips |-> "none"]

PartsOf(category) ==
  IF category = "fuselage" THEN PartsFuselage
  ELSE IF category = "wings" THEN PartsWings
  ELSE PartsWingtips

\* _onLanded at the airport found: the airport unlocked, the active mission
\* completed if this is its destination (a penalty in place of the reward
\* when heat-sensitive cargo spoiled), new missions, totalFlights++
OnLanded(w, s, airportId, spoiled, now) ==
  LET m  == s.active
      s1 == [s EXCEPT !.unlocked = IF \E i \in 1..Len(@) : @[i] = airportId
                                   THEN @ ELSE Append(@, airportId)]
      \* mResult.mission.penalty || Math.round(mResult.reward * 0.5)
      penalty == IF m.penalty # 0 THEN m.penalty ELSE RDiv(m.reward, 2)
      s2 == IF m = NoMission \/ m.toAirport # airportId THEN s1
            ELSE IF spoiled /\ m.heatSensitive
            THEN Resolved([ClearMission(s1) EXCEPT !.money = Fined(@, penalty)],
                          m, "penalty")
            ELSE Resolved([ClearMission(s1) EXCEPT !.money = @ + m.reward],
                          m, "reward")
  IN  [GenerateMissions(w, s2, airportId, now) EXCEPT !.totalFlights = @ + 1]

\* _onCrashed: the active mission failed and its penalty taken, the towing fee
\* Math.round(money * 0.1), the cargo lost
OnCrashed(s) ==
  LET m  == s.active
      s1 == IF m = NoMission THEN s
            ELSE Resolved([ClearMission(s) EXCEPT !.money = Fined(@, m.penalty)],
                          m, "penalty")
  IN  [s1 EXCEPT !.money = Max2(0, @ - RDiv(@, 10)), !.cargo = <<>>]

\* this.economy.update(dt) and _handleEconResult of what it returns
EconomyUpdate(s, dt, now) ==
  LET m  == [s.active EXCEPT !.timeRemaining = @ - dt]
  IN  IF s.active # NoMission /\ s.active.timeLimit # 0
      THEN IF m.timeRemaining <= 0
           THEN Resolved([ClearMission(WriteMission(s, m))
                            EXCEPT !.money = Fined(@, m.penalty)], m, "penalty")
           ELSE [WriteMission(s, m) EXCEPT
                   !.missions = SelectSeq(@, LAMBDA x : x.accepted \/ x.expiresAt > now)]
      ELSE [s EXCEPT
              !.missions = SelectSeq(@, LAMBDA x : x.accepted \/ x.expiresAt > now)]

\* the state and the Economy restart() makes for the world w
Restarted(w, s, now) ==
  GenerateMissions(w,
    [s EXCEPT !.money = 1000, !.shared = TRUE, !.own = s.defaults,
              !.cargo = <<>>, !.unlocked = <<0>>, !.totalFlights = 0,
              !.missions = <<>>, !.active = NoMission,
              !.markets = FreshMarkets(w),
              !.last = [op |-> "restart", ok |-> TRUE]],
    0, now)

\* Date.now(), in step with the timestamps of the frames
DateNow == game.lastTime \div 1000

\* the calls of the player still to explore
MaxTrades == 2

\* buyCargo, sellCargo, acceptMission, selectPart and restart are the calls of
\* the menu shown on the ground (showLandedMenu): they are made while
\* gameState is 'landed', between two frames.

\* a call of the player that returns before it changes anything
Rejected(op) ==
  /\ gen' = [gen EXCEPT !.last = [op |-> op, ok |-> FALSE], !.trades = @ + 1]
  /\ UNCHANGED <<physics, world, game>>

\* a call of the player that went through, leaving the session s
Accepted(op, s) ==
  gen' = [s EXCEPT !.last = [op |-> op, ok |-> TRUE], !.trades = gen.trades + 1]

\* the hold is full: currentVolume >= physConfig.cargoCapacity
HoldFull(s) ==
  CargoVolume(s.cargo) >= ComputePhysicsConfig(PlaneConfigOf(s)).cargoCapacity

\* Game.buyCargo(commodityId) with Economy.buyCommodity
BuyCargo(id) ==
  LET k == FindAirport(world, game.currentAirport)
  IN  /\ game.pc = "idle"
      /\ game.state = "landed"
      /\ gen.trades < MaxTrades
      /\ IF \/ k = 0
            \/ HoldFull(gen)
            \/ gen.markets[k][id] <= 0
            \/ gen.money < BuyPrice(world, world.airports[k], id)
         THEN Rejected("buyCargo")
         ELSE /\ Accepted("buyCargo",
                   [gen EXCEPT !.money = @ - BuyPrice(world, world.airports[k], id),
                               !.markets[k][id] = @ - 1,
                               !.cargo = Append(@, id)])
              /\ UNCHANGED <<physics, world, game>>

\* the list without its first id: cargo.splice(cargo.findIndex(...), 1)
RECURSIVE Spliced(_, _)
Spliced(c, id) ==
  IF c = <<>> THEN <<>>
  ELSE IF Head(c) = id THEN Tail(c)
  ELSE <<Head(c)>> \o Spliced(Tail(c), id)

\* Game.sellCargo(commodityId) with Economy.sellCommodity
SellCargo(id) ==
  LET k == FindAirport(world, game.currentAirport)
  IN  /\ game.pc = "idle"
      /\ game.state = "landed"
      /\ gen.trades < MaxTrades
      /\ IF k = 0 \/ ~(\E i \in 1..Len(gen.cargo) : gen.cargo[i] = id)
         THEN Rejected("sellCargo")
         ELSE /\ Accepted("sellCargo",
                   [gen EXCEPT !.money = @ + SellPrice(world, world.airports[k], id),
                               !.markets[k][id] = @ + 1,
                               !.cargo = Spliced(@, id)])
              /\ UNCHANGED <<physics, world, game>>

\* Game.acceptMission(missionId) with Economy.acceptMission
AcceptMission(missionId) ==
  /\ game.pc = "idle"
  /\ game.state = "landed"
  /\ gen.trades < MaxTrades
  /\ IF gen.active # NoMission \/ ~Accepts(gen, missionId)
     THEN Rejected("acceptMission")
     ELSE /\ Accepted("acceptMission",
               [WriteMission(gen, [FindMission(gen, missionId) EXCEPT !.accepted = TRUE])
                  EXCEPT !.active = [FindMission(gen, missionId) EXCEPT !.accepted = TRUE]])
          /\ UNCHANGED <<physics, world, game>>

\* Game.selectPart(category, key): the part paid for (nothing comes back for a
\* cheaper one), written into state.planeConfig, physics.setConfig
SelectPart(category, key) ==
  LET plane    == PlaneConfigOf(gen)
      costDiff == PartsOf(category)[key].cost - PartsOf(category)[plane[category]].cost
      chosen   == [plane EXCEPT ![category] = key]
      cfg      == ObjectAssign(config, ComputePhysicsConfig(chosen))
  IN  /\ game.pc = "idle"
      /\ game.state = "landed"
      /\ gen.trades < MaxTrades
      /\ IF costDiff > 0 /\ gen.money < costDiff
         THEN Rejected("selectPart")
         ELSE /\ Accepted("selectPart",
                   [gen EXCEPT !.money = IF costDiff > 0 THEN @ - costDiff ELSE @,
                               !.defaults = IF gen.shared THEN chosen ELSE @,
                               !.own = IF gen.shared THEN @ ELSE chosen])
              /\ config' = cfg
              /\ call' = [op |-> "setConfig"]
              /\ result' = "none"
              /\ locals' = NoLocals
              /\ flight' = [type |-> "none", updates |-> 0]
              /\ UNCHANGED <<kinematics, controls, flags, cargo, world,
                             sinceNormalize, ticks, calls, game>>

\* Game.launch(type) on the ground: the aerotow paid for, the config of the
\* plane with the weight of the cargo, physics.launch
SessionLaunch(type) ==
  /\ game.pc = "idle"
  /\ game.state = "landed"
  /\ gen.trades < MaxTrades
  /\ IF type = "aerotow" /\ gen.money < 100
     THEN Rejected("launch")
     ELSE /\ GameLaunch(type, [ComputePhysicsConfig(PlaneConfigOf(gen))
                                 EXCEPT !.cargoMass = CargoWeight(gen.cargo)])
          /\ Accepted("launch",
               [gen EXCEPT !.money = IF type = "aerotow" THEN @ - 100 ELSE @])

\* _loop up to the while loop, the frame's dt kept for economy.update
SessionLoop(timestamp) ==
  /\ Loop(timestamp)
  /\ gen' = [gen EXCEPT !.dt = FrameDelta(timestamp, game.lastTime)]

\* _handlePhysicsResult with the whole of _onLanded and _onCrashed
SessionHandle ==
  /\ HandlePhysicsResult
  /\ gen' = IF result = "crashed" THEN OnCrashed(gen)
            ELSE IF result = "landed" /\ LandedAirport # NoAirport
            THEN OnLanded(world, gen, LandedAirport.id, cargoSpoiled, DateNow)
            ELSE gen

\* the rest of the frame of a flight: economy.update(dt), _handleEconResult
SessionLoopEnd ==
  /\ LoopEnd
  /\ gen' = EconomyUpdate(gen, gen.dt, DateNow)

\* Game.restart() with its new state and its new Economy
SessionRestart(w) ==
  /\ game.state = "landed"
  /\ gen.trades < MaxTrades
  /\ Restart(w, PlaneConfigOf(gen))
  /\ gen' = [Restarted(w, gen, DateNow) EXCEPT !.trades = gen.trades + 1]

\* nineteen Textiles and one Preserved Food: 98 of the 100 litres of the
\* Standard fuselage
NearlyFull == [i \in 1..20 |-> IF i = 20 THEN "food" ELSE "textiles"]

(***************************************************************************)
(* Sessions under way: a flight near the ground of airport 0 of the        *)
(* plains, begun at the airport `from` where the missions on offer were    *)
(* generated at the time `born` (ms); `accepted` is the place in that list *)
(* of the mission the player accepted (0: none), `remaining` what is left  *)
(* of its time limit.  `shared` tells a game begun without a save.         *)
(***************************************************************************)
SessionCases ==
  {[name |-> "fresh",    from |-> 1, money |-> 1000, shared |-> TRUE,  cargo |-> <<>>,
    spoiled |-> FALSE, accepted |-> 0, born |-> 150000, remaining |-> 0],
   [name |-> "saved",    from |-> 1, money |-> 1000, shared |-> FALSE, cargo |-> NearlyFull,
    spoiled |-> FALSE, accepted |-> 0, born |-> 150000, remaining |-> 0],
   [name |-> "delivery", from |-> 1, money |-> 50,   shared |-> FALSE, cargo |-> <<"food", "food">>,
    spoiled |-> TRUE,  accepted |-> 1, born |-> 150000, remaining |-> 0],
   [name |-> "spoiled",  from |-> 1, money |-> 50,   shared |-> FALSE, cargo |-> <<"medicine", "medicine">>,
    spoiled |-> TRUE,  accepted |-> 3, born |-> 150000, remaining |-> 0],
   [name |-> "overdue",  from |-> 1, money |-> 1000, shared |-> FALSE, cargo |-> <<"textiles", "textiles">>,
    spoiled |-> FALSE, accepted |-> 2, born |-> 150000, remaining |-> 30000],
   [name |-> "local",    from |-> 0, money |-> 1000, shared |-> TRUE,  cargo |-> <<"food", "food">>,
    spoiled |-> FALSE, accepted |-> 1, born |-> 10000,  remaining |-> 0]}

\* the aircraft a millimetre above the height of contact, at 0.4 m/s: the next
\* update finds it on the runway below 2 km/h and returns 'landed'
Settling ==
  [name |-> "settling", dx |-> 0, dz |-> 0, height |-> 1001,
   v |-> Vec(0, 0, -200), pitch |-> 0]

\* a landing, a crash and a flight that goes on
SessionApproaches ==
  {Settling} \cup {x \in ApproachCases : x.name \in {"steep", "cruise"}}

\* the session of a case: the missions generateMissions made at `born`, one of
\* them accepted
SessionOf(w, c) ==
  LET s0 == GenerateMissions(w,
              [pc |-> "session", money |-> c.money, shared |-> c.shared,
               defaults |-> StandardPlane, own |-> StandardPlane,
               cargo |-> c.cargo,
               unlocked |-> IF c.from = 0 THEN <<0>> ELSE <<0, c.from>>,
               totalFlights |-> 1, missions |-> <<>>, active |-> NoMission,
               markets |-> FreshMarkets(w), log |-> <<>>, dt |-> 0, trades |-> 0,
               last |-> [op |-> "launch", ok |-> TRUE]],
              c.from, c.born)
      m  == [s0.missions[c.accepted] EXCEPT
               !.accepted = TRUE,
               !.timeRemaining = IF @ = 0 THEN 0 ELSE c.remaining]
  IN  IF c.accepted = 0 THEN s0
      ELSE [WriteMission(s0, m) EXCEPT !.active = m]

InitSession ==
  /\ world = WorldPlains
  /\ \E a \in SessionApproaches, c \in SessionCases :
       /\ position = Vec(a.dx, GetHeightAt(world, a.dx, a.dz) + a.height, a.dz)
       /\ velocity = a.v
       /\ orientation = SetFromEuler(a.pitch, 0, 0, "XYZ")
       /\ cargoSpoiled = c.spoiled
       /\ config = ObjectAssign(DefaultConfig,
                     [ComputePhysicsConfig(StandardPlane)
                        EXCEPT !.cargoMass = CargoWeight(c.cargo)])
       /\ game = [state |-> "flying", accum |-> 20000, lastTime |-> 200000000,
                  pc |-> "idle", steps |-> 0, frames |-> 0, timers |-> 0,
                  currentAirport |-> c.from]
       /\ gen = SessionOf(world, c)
  /\ angularVelocity = VZero
  /\ pitchInput = 0 /\ rollInput = 0 /\ yawInput = 0 /\ brakeInput = 0
  /\ isLaunching = FALSE
  /\ launchThrust = 0
  /\ launchTimer = SpentTimer
  /\ stalling = FALSE
  /\ crashed = FALSE
  /\ landed = FALSE
  /\ thermalHeatTime = TimeZero
  /\ currentTemp = 15000
  /\ turbulenceOffset = VZero
  /\ call = [op |-> "update"]
  /\ result = "flying"
  /\ locals = NoLocals
  /\ sinceNormalize = 0
  /\ flight = NoFlight
  /\ ticks = 0
  /\ calls = MaxCalls

\* the ids of the missions in the list, and one that no mission has
MissionIds(s) == {s.missions[i].id : i \in 1..Len(s.missions)} \cup {<<0, 0>>}

\* the parts the player picks here
PartChoices ==
  {<<"fuselage", "standard">>, <<"fuselage", "twoseater">>,
   <<"fuselage", "freighter">>, <<"wingtips", "drooped">>}

\* microseconds from one frame's timestamp to the next
SessionFrameTimes == {4000, 16667}

NextSession ==
  \/ \E t \in SessionFrameTimes : SessionLoop(game.lastTime + t)
  \/ LoopStep /\ UNCHANGED gen
  \/ SessionHandle
  \/ SessionLoopEnd
  \/ \E type \in LaunchTypes : SessionLaunch(type)
  \/ Respawn(RespawnAirport(world, game)) /\ UNCHANGED gen
  \/ SessionRestart(WorldPlains)
  \/ \E id \in DOMAIN Commodities : BuyCargo(id)
  \/ \E id \in DOMAIN Commodities : SellCargo(id)
  \/ \E id \in MissionIds(gen) : AcceptMission(id)
  \/ \E p \in PartChoices : SelectPart(p[1], p[2])

SpecSession == InitSession /\ [][NextSession]_vars

\* ------------------------------------------------------------ properties
Returned == {"flying", "landing", "landed", "crashed"}

\* the speed in the x-z plane
HorizontalSpeed(vel) == VLen(Vec(vel.x, 0, vel.z))

\* C1: an update made while landed or crashed changes none of position, velocity,
\* orientation, launchTimer, launchThrust, thermalHeatTime, cargoSpoiled, stalling,
\* landed, crashed; so it is for every such update until launch is called.
C1_NoOpOnGround ==
  [][(landed \/ crashed) /\ call'.op = "update"
       => UNCHANGED <<position, velocity, orientation, launchTimer, launchThrust,
                      thermalHeatTime, cargoSpoiled, stalling, landed, crashed>>]_vars

\* C1 happens: update has just returned without effect, right after resetAt
\* put the aircraft on an airport
C1_Witness ==
  /\ call.op = "update" /\ result = Undefined
  /\ landed /\ velocity = VZero /\ ticks = 0

\* C2: an update that finds the ground in contact returns 'landing' or 'landed',
\* and then only over an airport and inside the speed envelope, or 'crashed';
\* away from any airport it sets crashed, never landed, zeroes the velocity and
\* leaves position.y at the terrain height + 2.
C2_ContactOutcome ==
  locals.ran /\ locals.contact =>
    /\ result \in {"landing", "landed", "crashed"}
    /\ result \in {"landing", "landed"} =>
         /\ locals.airport # -1
         /\ Abs(locals.clamped.y) < 2 * VS
         /\ SpeedKmhBelow(locals.clamped, 40)
    /\ crashed <=> result = "crashed"
    /\ locals.airport = -1 =>
         /\ crashed /\ ~landed
         /\ velocity = VZero
         /\ position.y = GetHeightAt(world, position.x, position.z) + 2 * PS

\* C2 happens: the ground was touched away from any airport
C2_Witness ==
  locals.ran /\ locals.contact /\ locals.airport = -1 /\ result = "crashed"

\* C3: at ground contact over an airport the update returns 'landing' or 'landed'
\* when |vertical speed| < 2 m/s and the speed in the x-z plane < 40 km/h, and
\* 'crashed' otherwise.
C3_HorizontalEnvelope ==
  locals.ran /\ locals.contact /\ locals.airport # -1 =>
    IF /\ Abs(locals.clamped.y) < 2 * VS
       /\ HorizontalSpeed(locals.clamped) * 36 < 40 * 10 * VS
    THEN result \in {"landing", "landed"}
    ELSE result = "crashed"

\* C4: once an update has returned 'landing', the next update made with no
\* control input returns 'landing' again or 'landed': the roll goes on until it
\* ends landed.
C4_RollCompletes ==
  [][result = "landing" /\ controls = <<0, 0, 0, 0>> /\ call'.op = "update"
       => result' \in {"landing", "landed"}]_vars

\* C5: launch(type), called in any state, clears landed and crashed, sets
\* isLaunching, resets thermalHeatTime and cargoSpoiled, sets the velocity to
\* forward * 15 (cable) or forward * 25 (aerotow), launchThrust to totalMass * G
\* * 1.5 or * 1.2, launchTimer to 4 or 15, and leaves position and orientation.
C5_Launch ==
  [][call'.op = "launch" =>
       /\ ~landed' /\ ~crashed' /\ isLaunching'
       /\ thermalHeatTime' = TimeZero /\ ~cargoSpoiled'
       /\ velocity' = VScale(Forward(orientation),
                             (IF call'.type = "cable" THEN 15 ELSE 25) * VS, QS)
       /\ launchThrust' = RDiv(TotalMass(config) * G
                                 * (IF call'.type = "cable" THEN 15 ELSE 12), 100)
       /\ launchTimer' = Time(FALSE, SecondsLimbs(IF call'.type = "cable" THEN 4 ELSE 15))
       /\ UNCHANGED <<position, orientation>>]_vars

\* C5 happens: launch was called after updates had run, in flight or on a wreck
C5_Witness == call.op = "launch" /\ ticks > 0 /\ position # Vec(0, 300 * PS, 0)

\* C6: right after launch('cable') landed is false, and once 240 updates with no
\* control input have followed it launchTimer is <= 0, isLaunching is false and
\* launchThrust is 0.
C6_CableLaunchOver ==
  /\ call.op = "launch" => ~landed
  /\ flight.type = "cable" /\ flight.updates = 240 =>
       ~TimePositive(launchTimer) /\ ~isLaunching /\ launchThrust = 0

\* C7: every update, landed and crashed aircraft included, returns one of
\* 'flying', 'landing', 'landed', 'crashed', and returns 'landed' or 'crashed'
\* with the flag of that name set.
C7_ReturnsOneOfFour ==
  call.op = "update" =>
    /\ result \in Returned
    /\ result = "landed" => landed
    /\ result = "crashed" => crashed

\* C8: when update returns, every rotation it multiplied into orientation has
\* been followed by a normalization.
C8_Renormalized == call.op = "update" => sinceNormalize = 0

\* C9: after every update that ran, whatever it returned, the speed is at most
\* config.maxSpeed (to the two units the fixed-point clamp rounds within).
C9_SpeedClamped == locals.ran => Speed(velocity) <= config.maxSpeed + 2

\* C9 happens: the integrated velocity was above maxSpeed and was clamped
C9_Witness ==
  /\ locals.ran /\ Speed(locals.integrated) > config.maxSpeed + 2
  /\ result = "flying"

\* C10: after every update that ran, stalling is true exactly when the angle of
\* attack of that tick is beyond 16 degrees either way or the speed of that tick
\* is below 0.9 * stallSpeed.
C10_StallFlag ==
  locals.ran =>
    (stalling <=> (Abs(locals.aoa) > 160 \/ locals.v * 10 < config.stallSpeed * 9))

\* C10 happens: an angle of attack near 20 degrees stalls an aircraft flying
\* faster than its stall speed
C10_Witness ==
  /\ locals.ran /\ stalling
  /\ Abs(locals.aoa) > 190 /\ Abs(locals.aoa) < 210
  /\ locals.v >= config.stallSpeed

\* C11: the rotation an update applies while stalling below stall speed turns
\* about the body pitch axis in the sense of the nose-down control
\* (pitchInput = -1), not in the sense of pitchInput = +1.
C11_StallPitchNoseDown ==
  call.op = "update" /\ sinceNormalize = 1 =>
    /\ Sgn(StallPitch.x) = Sgn(ControlRotation(-1, 0, 0, config).x)
    /\ Sgn(StallPitch.x) # Sgn(ControlRotation(1, 0, 0, config).x)

\* C12 as stated: thermalHeatTime grows by dt on exactly the ticks whose ambient
\* temperature is above 30 degrees and is otherwise left alone by update;
\* cargoSpoiled is true whenever thermalHeatTime exceeds 10 seconds; and
\* cargoSpoiled, once true, stays true over every call but launch.
C12_SpoiledUntilLaunch ==
  [][/\ call'.op = "update" /\ locals'.ran =>
          thermalHeatTime'.mag = IF currentTemp' > 30000
                                 THEN RoundToDouble(LimbAdd(thermalHeatTime.mag, DtLimbs))
                                 ELSE thermalHeatTime.mag
     /\ LimbLess(SecondsLimbs(10), thermalHeatTime'.mag) => cargoSpoiled'
     /\ cargoSpoiled /\ call'.op # "launch" => cargoSpoiled']_vars

\* C12 amended: the same, but cargoSpoiled stays true over every call except
\* launch and resetAt, which both clear it together with thermalHeatTime.
C12_SpoiledUntilReset ==
  [][/\ call'.op = "update" /\ locals'.ran =>
          thermalHeatTime'.mag = IF currentTemp' > 30000
                                 THEN RoundToDouble(LimbAdd(thermalHeatTime.mag, DtLimbs))
                                 ELSE thermalHeatTime.mag
     /\ call'.op = "update" => ~LimbLess(thermalHeatTime'.mag, thermalHeatTime.mag)
     /\ LimbLess(SecondsLimbs(10), thermalHeatTime'.mag) => cargoSpoiled'
     /\ cargoSpoiled /\ call'.op \notin {"launch", "resetAt"} => cargoSpoiled'
     /\ call'.op \in {"launch", "resetAt"} =>
          ~cargoSpoiled' /\ thermalHeatTime' = TimeZero]_vars

\* the cargo spoiled on the 600th hot tick and the flight went on into cool air
C12_Witness ==
  /\ call.op = "update" /\ locals.ran
  /\ cargoSpoiled
  /\ LimbLess(SecondsLimbs(10), thermalHeatTime.mag)
  /\ currentTemp <= 30000

\* C13: the loop steps the physics only while gameState is 'flying' and one
\* PHYSICS_DT of accumulated time per step; within a frame no step follows a
\* step that reported 'landed' or 'crashed'; and a frame ends with gameState
\* other than 'flying' or with 0 <= physicsAccum < PHYSICS_DT.
C13_FixedTimestep ==
  [][/\ game'.steps > game.steps =>
          /\ game.state = "flying"
          /\ game.accum >= PHYSICS_DT
          /\ call'.op = "update"
          /\ game.steps > 0 => result \notin {"landed", "crashed"}
     /\ game'.pc = "stepping" /\ game.pc = "handling" =>
          /\ game'.accum = game.accum - PHYSICS_DT
          /\ result \in {"landed", "crashed"} => game'.state = result
     /\ game'.frames > game.frames =>
          \/ game'.state # "flying"
          \/ 0 <= game'.accum /\ game'.accum < PHYSICS_DT]_vars

\* a frame that ran two steps or more and left the aircraft flying
C13_Witness ==
  /\ game.state = "flying" /\ game.pc = "idle" /\ game.frames > 0
  /\ game.steps >= 2
  /\ game.accum < PHYSICS_DT

\* C14: the physics step is deterministic.  Whatever the wall clock reads
\* (every reading performance.now() the update could have made: it reads the
\* clock where the air is turbulent), the update ends in the one state and
\* returns the one value that the update actually made ended in and returned.
C14_Deterministic ==
  [][ticks' = ticks + 1 =>
       \A now \in NowSamples :
         (now = 0 \/ (world # NoWorld /\
            GetThermalLift(world, position.x, position.y, position.z).turbulence > 0))
         => UpdateStep(MaxTicks, now)]_vars

\* C15: a SeededRandom the game seeds stays in range: after every draw the seed
\* is in 1..2^31-2, so that next() = (seed - 1) / (2^31 - 2) is in [0, 1), and
\* nextInt(min, max) returns a whole number in min..max-1.
C15_RandomInRange ==
  gen.pc \in {"shuffle", "perm", "grad", "done"} /\ gen.last.op # "none" =>
    /\ gen.rng \in 1..(Modulus - 1)
    /\ 0 <= gen.rng - 1 /\ gen.rng - 1 < Modulus - 1
    /\ gen.last.op = "nextInt" =>
         gen.last.value \in gen.last.min..(gen.last.max - 1)

\* C17: once a PerlinNoise is constructed, perm[0..255] holds each of 0..255
\* exactly once and perm[i + 256] = perm[i]; every swap index j the shuffle
\* drew for index i was in 0..i.
C17_PermIsPermutation ==
  /\ gen.pc \in {"shuffle", "perm"} /\ gen.last.op = "nextInt" =>
       gen.last.value \in 0..(gen.last.max - 1)
  /\ gen.pc \in {"grad", "done"} =>
       /\ Len(gen.perm) = 512
       /\ {gen.perm[k] : k \in 1..256} = 0..255
       /\ \A k \in 1..256 : gen.perm[k + 256] = gen.perm[k]


\* a World is under construction or built
InWorld == gen.pc \in {"airports", "thermals", "built"}

C18_AirportPlacement ==
  InWorld =>
    /\ gen.attempts <= MaxAttempts
    /\ Len(gen.airports) >= 1
    /\ Len(gen.airports) <= AirportCount
    /\ gen.airports[1].x = 0
    /\ gen.airports[1].z = 0
    /\ \A k \in 1..Len(gen.airports) : gen.airports[k].id = k - 1
    /\ gen.pc # "airports" =>
         Len(gen.airports) = AirportCount \/ gen.attempts = MaxAttempts

C18_Witness ==
  /\ InWorld /\ gen.pc = "built"
  /\ gen.attempts = MaxAttempts
  /\ Len(gen.airports) = 1

\* C19: two airports are at least 1500 m apart; every airport but the first
\* lies outside the Ocean biome between 1500 m and 7500 m from the origin (to
\* the metre); an airport's elevation is the larger of the terrain height and 5
C19_AirportSpacing ==
  InWorld =>
    /\ \A j \in 1..Len(gen.airports) : \A k \in 1..(j - 1) :
         PlanarDistance(gen.airports[j].x - gen.airports[k].x,
                        gen.airports[j].z - gen.airports[k].z) >= 2 * 1500
    /\ \A k \in 2..Len(gen.airports) :
         /\ GetBiome(gen.terrain, gen.airports[k].x, gen.airports[k].z) # BiomeOcean
         /\ PlanarDistance(gen.airports[k].x, gen.airports[k].z) >= 2 * 1500 - 2
         /\ PlanarDistance(gen.airports[k].x, gen.airports[k].z) <= 2 * 7500 + 2
    /\ \A k \in 1..Len(gen.airports) :
         gen.airports[k].elevation
           = Max2(GetTerrainHeight(gen.terrain, gen.airports[k].x, gen.airports[k].z),
                  5 * PS)

C19_Witness ==
  /\ InWorld /\ gen.pc = "built"
  /\ gen.terrain = PlainsTerrain
  /\ Len(gen.airports) = AirportCount
  /\ gen.attempts > AirportCount - 1

\* v lies in the interval from lo to hi
Within(v, lo, hi) == lo <= v /\ v <= hi

\* C20: _generateThermals draws 80 places and draws none again; the thermals
\* are the draws outside the Ocean biome, in order, none of them in Ocean, and
\* strength, radius, maxAlt, temperature and turbulence of each lie in the
\* intervals of its biome
C20_ThermalPlacement ==
  InWorld =>
    /\ gen.i <= ThermalCount
    /\ Len(gen.drawn) = gen.i
    /\ gen.pc = "built" => gen.i = 80
    /\ Len(gen.thermals) = Cardinality({k \in 1..Len(gen.drawn) : gen.drawn[k] # BiomeOcean})
    /\ Len(gen.thermals) <= 80
    /\ \A k \in 1..Len(gen.thermals) :
         /\ gen.thermals[k].biome # BiomeOcean
         /\ GetBiome(gen.terrain, gen.thermals[k].x, gen.thermals[k].z) = gen.thermals[k].biome
         /\ gen.thermals[k].biome = BiomePlains =>
              /\ Within(gen.thermals[k].strength, 2000, 5000)
              /\ Within(gen.thermals[k].radius, 80000, 200000)
              /\ Within(gen.thermals[k].maxAlt, 1500000, 2000000)
              /\ Within(gen.thermals[k].temperature, 25000, 35000)
              /\ Within(gen.thermals[k].turbulence, 0, 300)
         /\ gen.thermals[k].biome = BiomeMountains =>
              /\ Within(gen.thermals[k].strength, 3000, 7000)
              /\ Within(gen.thermals[k].radius, 60000, 160000)
              /\ Within(gen.thermals[k].maxAlt, 3000000, 4000000)
              /\ Within(gen.thermals[k].temperature, 20000, 28000)
              /\ Within(gen.thermals[k].turbulence, 0, 300)
         /\ gen.thermals[k].biome = BiomeIsland =>
              /\ Within(gen.thermals[k].strength, 6000, 12000)
              /\ Within(gen.thermals[k].radius, 40000, 100000)
              /\ Within(gen.thermals[k].maxAlt, 4000000, 5000000)
              /\ Within(gen.thermals[k].temperature, 40000, 55000)
              /\ Within(gen.thermals[k].turbulence, 500, 1000)

C20_Witness ==
  /\ InWorld /\ gen.pc = "built"
  /\ Len(gen.thermals) > 0
  /\ Len(gen.thermals) < ThermalCount
  /\ {gen.thermals[k].biome : k \in 1..Len(gen.thermals)}
       = {BiomePlains, BiomeMountains, BiomeIsland}

\* the world w with its thermals ths only
WithThermals(w, ths) == [w EXCEPT !.thermals = ths]

\* what thermal k of the world alone adds to the lift at p, over the lift there
\* is without any thermal
LiftOf(w, k, p) ==
  GetThermalLift(WithThermals(w, <<w.thermals[k]>>), p.x, p.y, p.z).lift
    - GetThermalLift(WithThermals(w, <<>>), p.x, p.y, p.z).lift

RECURSIVE LiftSum(_, _, _)
LiftSum(w, k, p) == IF k = 0 THEN 0 ELSE LiftOf(w, k, p) + LiftSum(w, k - 1, p)

\* p is at the planar distance of the radius of th from its axis, or farther
\* (lengths in cm)
AtRimOrBeyond(th, p) ==
  \/ Abs(p.x - th.x) >= th.radius
  \/ Abs(p.z - th.z) >= th.radius
  \/ ((p.x - th.x) \div 10) * ((p.x - th.x) \div 10)
       + ((p.z - th.z) \div 10) * ((p.z - th.z) \div 10)
     >= (th.radius \div 10) * (th.radius \div 10)

\* C21: getThermalLift over the Ocean returns the sink (-1.5, 12, 0.1) whatever
\* the thermals; elsewhere the lift is the sum of what each thermal adds, a
\* thermal adds nothing at its radius or beyond and at or above its maxAlt, and
\* adds a positive lift on its axis below maxAlt; temperature and turbulence are
\* the largest of the thermals' values, the temperature at least 15
C21_ThermalFalloff ==
  gen.pc = "query" /\ gen.last.op = "getThermalLift" =>
    IF GetBiome(world, gen.last.at.x, gen.last.at.z) = BiomeOcean
    THEN gen.last.value = [lift |-> -1500, temperature |-> 12000, turbulence |-> 100]
    ELSE /\ gen.last.value.lift
              = GetThermalLift(WithThermals(world, <<>>), gen.last.at.x, gen.last.at.y,
                               gen.last.at.z).lift
                + LiftSum(world, Len(world.thermals), gen.last.at)
         /\ gen.last.value.temperature >= 15000
         /\ \A k \in 1..Len(world.thermals) :
              /\ AtRimOrBeyond(world.thermals[k], gen.last.at)
                   \/ gen.last.at.y >= world.thermals[k].maxAlt
                 => GetThermalLift(WithThermals(world, <<world.thermals[k]>>),
                                   gen.last.at.x, gen.last.at.y, gen.last.at.z)
                    = GetThermalLift(WithThermals(world, <<>>),
                                     gen.last.at.x, gen.last.at.y, gen.last.at.z)
              /\ ~AtRimOrBeyond(world.thermals[k], gen.last.at)
                   /\ gen.last.at.y < world.thermals[k].maxAlt
                 => LiftOf(world, k, gen.last.at) >= 0
              /\ gen.last.at.x = world.thermals[k].x
                   /\ gen.last.at.z = world.thermals[k].z
                   /\ gen.last.at.y < world.thermals[k].maxAlt
                 => LiftOf(world, k, gen.last.at) > 0
              /\ gen.last.value.temperature
                   >= GetThermalLift(WithThermals(world, <<world.thermals[k]>>),
                                     gen.last.at.x, gen.last.at.y, gen.last.at.z).temperature
              /\ gen.last.value.turbulence
                   >= GetThermalLift(WithThermals(world, <<world.thermals[k]>>),
                                     gen.last.at.x, gen.last.at.y, gen.last.at.z).turbulence
         /\ \E t \in {15000} \cup
                     {GetThermalLift(WithThermals(world, <<world.thermals[k]>>),
                                     gen.last.at.x, gen.last.at.y, gen.last.at.z).temperature :
                        k \in 1..Len(world.thermals)} :
              gen.last.value.temperature = t
         /\ \E t \in {0} \cup
                     {GetThermalLift(WithThermals(world, <<world.thermals[k]>>),
                                     gen.last.at.x, gen.last.at.y, gen.last.at.z).turbulence :
                        k \in 1..Len(world.thermals)} :
              gen.last.value.turbulence = t

\* two thermals add lift at once, the hotter one setting the temperature
C21_Witness ==
  /\ gen.pc = "query" /\ gen.last.op = "getThermalLift"
  /\ GetBiome(world, gen.last.at.x, gen.last.at.z) # BiomeOcean
  /\ Cardinality({k \in 1..Len(world.thermals) : LiftOf(world, k, gen.last.at) > 0}) = 2
  /\ gen.last.value.temperature > 15000

\* the sink is returned within the radius of a thermal
C21_OceanWitness ==
  /\ gen.pc = "query" /\ gen.last.op = "getThermalLift"
  /\ GetBiome(world, gen.last.at.x, gen.last.at.z) = BiomeOcean
  /\ \E k \in 1..Len(world.thermals) : ~AtRimOrBeyond(world.thermals[k], gen.last.at)

\* C22: no query of the World and no World.update changes the noise fields,
\* the thermals, the number or order of the airports, or an airport's id, x, z,
\* elevation, heading, length or width
C22_WorldImmutable ==
  [][gen.pc = "query" =>
       /\ world'.biome = world.biome
       /\ world'.h0 = world.h0
       /\ world'.slopeZ = world.slopeZ
       /\ world'.thermals = world.thermals
       /\ Len(world'.airports) = Len(world.airports)
       /\ \A k \in 1..Len(world.airports) :
            \A f \in {"id", "x", "z", "elevation", "heading", "length", "width"} :
              world'.airports[k][f] = world.airports[k][f]]_vars

\* chunks were loaded and unloaded again, an airport has got its runway
\* markings, and a query was made since
C22_Witness ==
  /\ gen.pc = "query"
  /\ gen.chunks # {}
  /\ <<0, 0>> \notin gen.chunks
  /\ "worldPos" \in DOMAIN world.airports[1]
  /\ gen.last.op = "getMinimapData"

\* C23: setConfig(config) gives every field of config its value in
\* this.config, keeps every other field of this.config, and leaves position,
\* velocity, orientation, the flags landed, crashed and isLaunching,
\* launchTimer, launchThrust, thermalHeatTime and cargoSpoiled as they are
C23_SetConfigFrame ==
  [][\A cfg \in ConfigSamples :
       SetConfig(cfg) =>
         /\ DOMAIN config' = DOMAIN config \cup DOMAIN cfg
         /\ \A f \in DOMAIN cfg : config'[f] = cfg[f]
         /\ \A f \in DOMAIN config \ DOMAIN cfg : config'[f] = config[f]
         /\ position' = position /\ velocity' = velocity /\ orientation' = orientation
         /\ landed' = landed /\ crashed' = crashed /\ isLaunching' = isLaunching
         /\ launchTimer' = launchTimer /\ launchThrust' = launchThrust
         /\ thermalHeatTime' = thermalHeatTime /\ cargoSpoiled' = cargoSpoiled]_vars

\* setConfig was called in flight with an object of some fields, after an
\* earlier call: fields of the earlier call are still there
C23_Witness ==
  /\ call.op = "setConfig"
  /\ ticks > 0
  /\ "colour" \in DOMAIN config
  /\ config.cargoMass = 100
  /\ config.mass = 260
  /\ position # Vec(0, 300 * PS, 0)

\* C24: the respawn that _onCrashed scheduled runs only while gameState is
\* 'crashed': it never resets an aircraft, nor sets gameState to 'landed',
\* while a new flight is under way
C24_RespawnOnlyWhenCrashed ==
  [][game'.timers < game.timers => game.state = "crashed"]_vars

\* C25: when update returns 'landed', getAirportAt finds an airport at the
\* aircraft's place, so that _onLanded keeps gameState 'landed' and
\* physics.landed true; and whenever gameState is 'landed', physics.landed is
\* true and state.currentAirport is an airport of the world
C25_LandedAtAirport ==
  [][/\ game.pc = "handling" /\ result = "landed" =>
          /\ GetAirportAt(world, position.x, position.y, position.z) # NoAirport
          /\ game'.state = "landed"
          /\ landed'
          /\ game'.currentAirport
               = GetAirportAt(world, position.x, position.y, position.z).id
     /\ game'.state = "landed" =>
          /\ landed'
          /\ \E k \in 1..Len(world'.airports) :
               world'.airports[k].id = game'.currentAirport]_vars

\* a flight that began at airport 1 has come to rest on airport 0, one metre
\* above its elevation, and _onLanded has run
C25_Witness ==
  /\ game.state = "landed" /\ game.pc = "stepping"
  /\ result = "landed"
  /\ landed
  /\ game.currentAirport = 0
  /\ position.y = world.airports[1].elevation + 1 * PS

InSession == gen.pc = "session"

\* the missions of the list that are accepted
AcceptedIn(s) == {i \in 1..Len(s.missions) : s.missions[i].accepted}

\* C26: one mission at a time: at most one mission of the list is accepted;
\* activeMission is non-null exactly when the list holds an accepted mission,
\* and that mission is activeMission; an acceptMission that returns false
\* (a mission is active, the id is unknown, the mission is accepted already)
\* changes nothing
C26_OneMissionAtATime ==
  [][/\ gen'.pc = "session" =>
          /\ Cardinality(AcceptedIn(gen')) <= 1
          /\ (gen'.active # NoMission) <=> (AcceptedIn(gen') # {})
          /\ \A i \in AcceptedIn(gen') : gen'.missions[i] = gen'.active
     /\ InSession =>
          \A id \in MissionIds(gen) :
            AcceptMission(id) /\ (gen.active # NoMission \/ ~Accepts(gen, id)) =>
              /\ gen'.missions = gen.missions /\ gen'.active = gen.active
              /\ gen'.money = gen.money /\ gen'.cargo = gen.cargo
              /\ UNCHANGED <<physics, world, game>>]_vars

\* the entries of the log that resolve the mission id
ResolutionsOf(s, id) == {i \in 1..Len(s.log) : s.log[i].id = id}

\* C27: each accepted mission is resolved at most once: no mission is paid for
\* twice (a reward and a penalty, or two penalties); a resolution pays the reward
\* or takes the penalty of the active mission once and leaves no mission
\* active, so that the updates that follow return null
C27_ResolvedOnce ==
  [][gen'.pc = "session" /\ InSession =>
       /\ \A i \in 1..Len(gen'.log) : Cardinality(ResolutionsOf(gen', gen'.log[i].id)) = 1
       /\ Len(gen'.log) <= Len(gen.log) + 1
       /\ Len(gen'.log) > Len(gen.log) =>
            LET e     == gen'.log[Len(gen'.log)]
                fined == Max2(0, gen.money - gen.active.penalty)
            IN  /\ e.id = gen.active.id
                /\ gen'.active = NoMission
                /\ gen'.money = IF e.kind = "reward" THEN gen.money + gen.active.reward
                                ELSE IF result = "crashed" /\ game.pc = "handling"
                                THEN fined - RDiv(fined, 10)
                                ELSE fined]_vars

\* an urgent mission ran out of time in flight, its penalty of 702 was taken
\* from the 1000 the player had, and two more frames of the flight have run
C27_Witness ==
  /\ InSession
  /\ game.state = "flying" /\ game.pc = "idle" /\ game.frames = MaxFrames
  /\ Len(gen.log) = 1 /\ gen.log[1].kind = "penalty"
  /\ gen.active = NoMission
  /\ gen.money = 298
  /\ gen.dt > 0

\* C28: the money is never negative, and a purchase (of cargo or of a part)
\* or an aerotow the player cannot pay for leaves the money and everything
\* else as it was
C28_MoneyNotNegative ==
  [][InSession /\ gen'.pc = "session" =>
       LET k      == FindAirport(world, game.currentAirport)
           plane  == PlaneConfigOf(gen)
           frame  == /\ gen' = [gen EXCEPT !.last = gen'.last, !.trades = gen'.trades]
                     /\ UNCHANGED <<physics, world, game>>
       IN  /\ gen.money >= 0 /\ gen'.money >= 0
           /\ \A id \in DOMAIN Commodities :
                (/\ BuyCargo(id)
                 /\ k # 0
                 /\ gen.money < BuyPrice(world, world.airports[k], id)) => frame
           /\ \A p \in PartChoices :
                (/\ SelectPart(p[1], p[2])
                 /\ gen.money < PartsOf(p[1])[p[2]].cost
                                  - PartsOf(p[1])[plane[p[1]]].cost) => frame
           /\ SessionLaunch("aerotow") /\ gen.money < 100 => frame]_vars

\* the penalty of a spoiled delivery took all the money the player had, and
\* the purchase the player then tried was turned down
C28_Witness ==
  /\ InSession
  /\ gen.money = 0
  /\ Len(gen.log) = 1 /\ gen.log[1].kind = "penalty"
  /\ gen.last = [op |-> "buyCargo", ok |-> FALSE]
  /\ game.state = "landed"

\* C29: the volume of the cargo never exceeds the cargoCapacity of the fuselage
\* in use, and a buyCargo that would exceed it is turned down with the hold,
\* the money and the stock unchanged
C29_CargoWithinCapacity ==
  [][gen'.pc = "session" /\ InSession =>
       /\ CargoVolume(gen'.cargo)
            <= PartsFuselage[PlaneConfigOf(gen').fuselage].cargoCapacity
       /\ \A id \in DOMAIN Commodities :
            (/\ BuyCargo(id)
             /\ CargoVolume(gen.cargo) + Commodities[id].volume
                  > PartsFuselage[PlaneConfigOf(gen).fuselage].cargoCapacity)
            => /\ gen'.cargo = gen.cargo
               /\ gen'.money = gen.money
               /\ gen'.markets = gen.markets]_vars

\* C30: restart() leaves the default state (money 1000, the plane standard /
\* medium / none, no cargo, currentAirport 0, unlockedAirports [0],
\* totalFlights 0) with gameState 'landed', physics.landed true and no active
\* mission
C30_RestartDefaults ==
  [][InSession /\ SessionRestart(WorldPlains) =>
       /\ gen'.money = 1000
       /\ PlaneConfigOf(gen') = StandardPlane
       /\ gen'.cargo = <<>>
       /\ game'.currentAirport = 0
       /\ gen'.unlocked = <<0>>
       /\ gen'.totalFlights = 0
       /\ game'.state = "landed"
       /\ landed'
       /\ gen'.active = NoMission]_vars

====
